---- MODULE Spec2Model ----
(***************************************************************************)
(* Workflow dispatch / monitor / record lifecycle of olimar-gh-app.        *)
(*                                                                         *)
(* Every action is the code that runs between the completion of one        *)
(* awaited call (a Workflow Control API request, a Gateway query, a timer) *)
(* and the issue of the next one: the suspension points of the single      *)
(* threaded runtime are the only places where invocations interleave.      *)
(***************************************************************************)
EXTENDS Integers, FiniteSets, Sequences, TLC

(* ------------------------------ bounds -------------------------------- *)

\* distinct external run ids the Workflow Control API can report
MaxRunId == 2
\* rows the workflow_runs table can hold
MaxRecords == 2
\* list-runs requests one monitor issues in the concurrent specification
MaxPolls == 2
\* readings the local clock can reach
MaxClock == 2
MaxClients == 2

(* ------------------------- program constants -------------------------- *)

\* the attempt budget of monitorWorkflowRun
maxAttempts == 60
\* the timer after every poll, in milliseconds
pollInterval == 10000
\* the timer before the first poll, in milliseconds
warmUpDelay == 5000

\* JavaScript null / undefined for numbers (ids, timestamps) and strings
NULL == 0
UNDEF == -1
NULLS == "null"
UNDEFS == "undefined"

\* the dispatchAndMonitorWorkflow invocations (both for the same workflow)
Procs == {1, 2}
\* the recordWorkflowRun invocations (one at a time, any number in sequence)
Handlers == {1}
\* the getClient calls that can be in flight together
Callers == {1, 2, 3}
RunIds == 1..MaxRunId

\* CHECK constraints of the workflow_runs table
ValidStatuses == {"queued", "in_progress", "completed"}
ValidConclusions == {"success", "failure", "cancelled", "skipped", "timed_out", "action_required"}

\* status / conclusion strings the Workflow Control API reports for a run
ApiStatuses == {"queued", "in_progress", "completed", "waiting"}
ApiConclusions == {"success", "failure", "neutral"}
\* timestamps the platform reports; run_started_at can be absent
ApiTimes == {1}
ApiStartTimes == ApiTimes \cup {NULL}

\* the entries of runs.workflow_runs the monitor can see first
ApiRuns ==
  { r \in [id : RunIds, status : ApiStatuses, conclusion : ApiConclusions \cup {NULLS},
           run_started_at : ApiStartTimes] :
      (r.status = "completed") <=> (r.conclusion # NULLS) }

NoRun == [id |-> NULL, status |-> "none", conclusion |-> NULLS, run_started_at |-> NULL]

\* errors the list-runs request can raise: with a response payload, without
FetchErrors == {"error_response", "error_other"}

VARIABLES
  dbAvailable,   \* src/db/index.ts: let dbAvailable
  records,       \* workflow_runs table: id -> row
  nextId,        \* next value of the id SERIAL sequence
  now,           \* the clock: read by new Date() and by the database's NOW()
  pc,            \* per invocation: the awaited call it is suspended on
  dbRecordId,    \* per invocation: dbRecordId of dispatchWorkflow / monitorWorkflowRun
  attempt,       \* per invocation: loop counter of monitorWorkflowRun
  latest,        \* per invocation: latestRun of the current poll
  ins,           \* history: outcome of the invocation's insert ("none" when not attempted)
  endpoint,      \* history: outcome of the invocation's dispatch endpoint call
  requests,      \* history: list-runs requests issued by the invocation's monitor
  sawCompleted,  \* history: a poll of this monitor reported status completed
  lastError,     \* history: the error caught by the catch block whose timer is pending
  hpc,           \* per event handler: the awaited call recordWorkflowRun is suspended on
  hevent,        \* per event handler: params.workflowRun
  hret,          \* per event handler: dbRecordId of the last ActionResult (NULL for {})
  hcaught,       \* history, per event handler: the catch block ran in its last call
  initRet,       \* history: the most recently completed initializeDatabase call: what its
                 \* connection attempt did and what the call returned
  script,        \* the Workflow Control API responses replayed to every invocation (replay only)
  caller,        \* per invocation: the promise dispatchAndMonitorWorkflow returned to its caller
  waited,        \* history: milliseconds of the timers the invocation's monitor has waited out
  push,          \* the push handler: the awaited call it is suspended on
  selected,      \* the push handler: sdkWorkflows (each selected workflow is one invocation)
  server,        \* initializeServer: the awaited call it is suspended on, or how it ended
  gwCall,        \* a direct caller of the Gateway: the operation called and its arguments
  gwRet,         \* a direct caller of the Gateway: what the last completed operation returned
  gwQueries,     \* history: queries the operation in gwCall has issued on the pool
  migFiles,      \* the .sql files of the migrations directory (without 000_create_...)
  schemaMigrations,   \* the versions recorded in the schema_migrations table
  pendingMigrations,  \* runMigrations: the part of pendingMigrations not yet applied
  migpc,         \* runMigrations: the awaited call it is suspended on, or how the run ended
  migPending,    \* history: the files that were pending when the current run filtered them
  migApplied,    \* history: the files the current run has applied, in the order applied
  client,        \* src/database/client.ts: let client (NULL, or the Client object it holds)
  clients,       \* the Client objects created so far: how far the connect() of each has come
  gpc,           \* per caller of getClient or closeClient: the awaited call, or how it ended
  gobj,          \* per caller: the Client object whose connect() or end() it awaits
  got            \* history, per caller: what its last getClient returned

vars == <<dbAvailable, records, nextId, now, pc, dbRecordId, attempt, latest,
          ins, endpoint, requests, sawCompleted, lastError, hpc, hevent, hret, hcaught,
          initRet, script, caller, waited, push, selected, server,
          gwCall, gwRet, gwQueries,
          migFiles, schemaMigrations, pendingMigrations, migpc, migPending, migApplied,
          client, clients, gpc, gobj, got>>

\* the variables of the push handler and of the server start-up
pushvars == <<push, selected, server>>

\* the variables of the recordWorkflowRun invocations
hvars == <<hpc, hevent, hret, hcaught>>

\* the variables of a direct caller of the Gateway
gwvars == <<gwCall, gwRet, gwQueries>>

\* the variables of the migration runner
migvars == <<migFiles, schemaMigrations, pendingMigrations, migpc, migPending, migApplied>>

\* the variables of the getClient calls
clientvars == <<client, clients, gpc, gobj, got>>

\* the variables outside the webhook server: direct Gateway use, migrations, getClient
libvars == <<gwvars, migvars, clientvars>>

(* --------------------------- Persistence Gateway ---------------------- *)

\* variant of CheckOk: the table has no CHECK constraint on status
CheckOkConclusionOnly(row) ==
  row.conclusion = NULLS \/ row.conclusion \in ValidConclusions

\* workflow_runs_status_check and workflow_runs_conclusion_check
CheckOk(row) ==
  /\ row.status \in ValidStatuses
  /\ row.conclusion = NULLS \/ row.conclusion \in ValidConclusions

\* WorkflowDatabase.insertWorkflowRun: the row stored for `run`; created_at and
\* updated_at are not in the column list and take their DEFAULT NOW()
InsertRow(run, by) ==
  [ run_id       |-> IF run.run_id = UNDEF THEN NULL ELSE run.run_id,
    status       |-> run.status,
    conclusion   |-> IF run.conclusion = UNDEFS THEN NULLS ELSE run.conclusion,
    triggered_at |-> run.triggered_at,
    started_at   |-> IF run.started_at = UNDEF THEN NULL ELSE run.started_at,
    completed_at |-> IF run.completed_at = UNDEF THEN NULL ELSE run.completed_at,
    created_at   |-> now,
    updated_at   |-> now,
    by           |-> by ]

\* the fields of an update object that are supplied (!== undefined)
Supplied(u) ==
  { f \in DOMAIN u : IF f \in {"status", "conclusion"} THEN u[f] # UNDEFS ELSE u[f] # UNDEF }

\* variant of NoFields: the query is issued whatever was supplied
NoFieldsNever(u) == FALSE

\* `if (fields.length === 0)`: no field was supplied, the operation returns false
NoFields(u) == Supplied(u) = {}

\* variant of ApplyUpdates: a full update, the fields not supplied are written as NULL
ApplyUpdatesOverwrites(row, u) ==
  [ f \in DOMAIN row |->
      IF f \in Supplied(u) THEN u[f]
      ELSE IF f = "updated_at" THEN now
      ELSE IF f \in {"started_at", "completed_at"} THEN NULL
      ELSE IF f = "conclusion" THEN NULLS
      ELSE row[f] ]

\* the SET clause of updateWorkflowRunById / updateWorkflowRunByRunId: one
\* assignment per supplied field, then `updated_at = NOW()`
ApplyUpdates(row, u) ==
  [ f \in DOMAIN row |->
      IF f \in Supplied(u) THEN u[f]
      ELSE IF f = "updated_at" THEN now
      ELSE row[f] ]

\* variant of UpdateWorkflowRunById: the rows that carry no run id are updated as well
UpdateWorkflowRunByIdOrUnset(recs, id, u) ==
  IF NoFields(u) THEN recs
  ELSE [ r \in DOMAIN recs |->
           IF r = id \/ recs[r].run_id = NULL THEN ApplyUpdates(recs[r], u) ELSE recs[r] ]

\* WorkflowDatabase.updateWorkflowRunById: the table after the UPDATE ... WHERE id
UpdateWorkflowRunById(recs, id, u) ==
  IF NoFields(u) \/ id \notin DOMAIN recs THEN recs
  ELSE [recs EXCEPT ![id] = ApplyUpdates(recs[id], u)]

\* whether the UPDATE ... WHERE id violates a CHECK constraint
UpdateByIdRejected(recs, id, u) ==
  /\ ~NoFields(u)
  /\ id \in DOMAIN recs
  /\ ~CheckOk(ApplyUpdates(recs[id], u))

\* variant of RowsWithRunId: the lookup never finds a row
RowsWithRunIdNone(recs, runId) == {}

\* WorkflowDatabase.getWorkflowRunByRunId: ids of the rows WHERE run_id = runId
RowsWithRunId(recs, runId) == { id \in DOMAIN recs : recs[id].run_id = runId }

(* ------------------------------ Dispatcher ---------------------------- *)

\* variant of DispatchRun: the row is inserted as already running
DispatchRunInProgress ==
  [ run_id |-> UNDEF, status |-> "in_progress", conclusion |-> UNDEFS,
    triggered_at |-> now, started_at |-> UNDEF, completed_at |-> UNDEF ]

\* the object dispatchWorkflow passes to insertWorkflowRun
DispatchRun ==
  [ run_id |-> UNDEF, status |-> "queued", conclusion |-> UNDEFS,
    triggered_at |-> now, started_at |-> UNDEF, completed_at |-> UNDEF ]

\* dispatchWorkflow is called: the flag is read; the insert or the endpoint call is issued
DispatchStart(p) ==
  /\ pc[p] = "idle"
  /\ IF dbAvailable
       THEN /\ pc' = [pc EXCEPT ![p] = "insert"]
            /\ ins' = [ins EXCEPT ![p] = "pending"]
       ELSE /\ pc' = [pc EXCEPT ![p] = "dispatch"]
            /\ ins' = ins
  /\ caller' = [caller EXCEPT ![p] = "pending"]
  /\ UNCHANGED <<dbAvailable, records, nextId, now, dbRecordId, attempt, latest,
                 endpoint, requests, sawCompleted, lastError, hvars, initRet, script,
                 waited, pushvars, libvars>>

\* variant of CatchInsertError: a failed insert aborts the dispatch
CatchInsertErrorRaises == "raised"

\* the catch block of the insert: the error is logged and the endpoint call is issued
CatchInsertError == "dispatch"

\* the insert resolves with the new row's id; the endpoint call is issued
DispatchInsertSucceeds(p) ==
  /\ pc[p] = "insert"
  /\ CheckOk(InsertRow(DispatchRun, p))
  /\ nextId <= MaxRecords
  /\ records' = (nextId :> InsertRow(DispatchRun, p)) @@ records
  /\ nextId' = nextId + 1
  /\ dbRecordId' = [dbRecordId EXCEPT ![p] = nextId]
  /\ ins' = [ins EXCEPT ![p] = "ok"]
  /\ pc' = [pc EXCEPT ![p] = "dispatch"]
  /\ UNCHANGED <<dbAvailable, now, attempt, latest, endpoint, requests, sawCompleted,
                 lastError, hvars, initRet, script, caller, waited, pushvars, libvars>>

\* variant of DispatchInsertFails: the catch block marks the database unavailable
DispatchInsertFailsClearsFlag(p) ==
  /\ pc[p] = "insert"
  /\ ins' = [ins EXCEPT ![p] = "failed"]
  /\ pc' = [pc EXCEPT ![p] = CatchInsertError]
  /\ dbAvailable' = FALSE
  /\ UNCHANGED <<records, nextId, now, dbRecordId, attempt, latest, endpoint,
                 requests, sawCompleted, lastError, hvars, initRet, script,
                 caller, waited, pushvars, libvars>>

\* the insert rejects: the error is logged, dbRecordId stays null, the endpoint call is issued
DispatchInsertFails(p) ==
  /\ pc[p] = "insert"
  /\ ins' = [ins EXCEPT ![p] = "failed"]
  /\ pc' = [pc EXCEPT ![p] = CatchInsertError]
  /\ UNCHANGED <<dbAvailable, records, nextId, now, dbRecordId, attempt, latest, endpoint,
                 requests, sawCompleted, lastError, hvars, initRet, script,
                 caller, waited, pushvars, libvars>>

\* the insert completes (or fails, which is logged); the endpoint call is issued
DispatchInsertReturns(p) ==
  \/ DispatchInsertSucceeds(p)
  \/ DispatchInsertFails(p)

\* variant of MonitorStarted: dispatchAndMonitorWorkflow awaits the monitor it starts
MonitorAwaited == "pending"

\* `monitorWorkflowRun({...}).catch(...)` without await: once the monitor is suspended
\* on its warm-up timer, dispatchAndMonitorWorkflow returns and its promise resolves
MonitorStarted == "resolved"

\* the endpoint accepts: dispatchWorkflow returns dbRecordId, dispatchAndMonitorWorkflow
\* starts monitorWorkflowRun, which runs up to its warm-up timer, and returns
DispatchAccepted(p) ==
  /\ pc[p] = "dispatch"
  /\ pc' = [pc EXCEPT ![p] = "warmup"]
  /\ endpoint' = [endpoint EXCEPT ![p] = "accepted"]
  /\ caller' = [caller EXCEPT ![p] = MonitorStarted]
  /\ UNCHANGED <<dbAvailable, records, nextId, now, dbRecordId, attempt, latest,
                 ins, requests, sawCompleted, lastError, hvars, initRet, script,
                 waited, pushvars, libvars>>

\* variant of DispatchRejected: the catch block marks the inserted row as failed
DispatchRejectedMarksFailed(p) ==
  /\ pc[p] = "dispatch"
  /\ pc' = [pc EXCEPT ![p] = "raised"]
  /\ endpoint' = [endpoint EXCEPT ![p] = "rejected"]
  /\ records' = [ id \in DOMAIN records |->
                    IF id = dbRecordId[p]
                      THEN [records[id] EXCEPT !.status = "completed", !.conclusion = "failure"]
                      ELSE records[id] ]
  /\ caller' = [caller EXCEPT ![p] = "rejected"]
  /\ UNCHANGED <<dbAvailable, nextId, now, dbRecordId, attempt, latest,
                 ins, requests, sawCompleted, lastError, hvars, initRet, script,
                 waited, pushvars, libvars>>

\* variant of DispatchRejected: the catch block swallows the error and returns
\* dbRecordId, so the caller starts the monitor
DispatchRejectedReturns(p) ==
  /\ pc[p] = "dispatch"
  /\ pc' = [pc EXCEPT ![p] = "warmup"]
  /\ endpoint' = [endpoint EXCEPT ![p] = "rejected"]
  /\ caller' = [caller EXCEPT ![p] = MonitorStarted]
  /\ UNCHANGED <<dbAvailable, records, nextId, now, dbRecordId, attempt, latest,
                 ins, requests, sawCompleted, lastError, hvars, initRet, script,
                 waited, pushvars, libvars>>

\* the endpoint rejects: the error is logged and rethrown by dispatchWorkflow and by
\* dispatchAndMonitorWorkflow, whose promise rejects; no monitor is started
DispatchRejected(p) ==
  /\ pc[p] = "dispatch"
  /\ pc' = [pc EXCEPT ![p] = "raised"]
  /\ endpoint' = [endpoint EXCEPT ![p] = "rejected"]
  /\ caller' = [caller EXCEPT ![p] = "rejected"]
  /\ UNCHANGED <<dbAvailable, records, nextId, now, dbRecordId, attempt, latest,
                 ins, requests, sawCompleted, lastError, hvars, initRet, script,
                 waited, pushvars, libvars>>

(* -------------------------------- Monitor ----------------------------- *)

\* variant of TrackingEnabled: the availability flag is not consulted
TrackingEnabledIgnoringFlag(p) == dbRecordId[p] # NULL

\* the guard `isDatabaseAvailable() && dbRecordId !== null` of both update blocks
TrackingEnabled(p) == dbAvailable /\ dbRecordId[p] # NULL

\* the object of the correlation write (run_id, status, started_at)
CorrelationUpdate(run) ==
  [ run_id |-> run.id, status |-> run.status, conclusion |-> UNDEFS,
    started_at |-> IF run.run_started_at # NULL THEN run.run_started_at ELSE UNDEF,
    completed_at |-> UNDEF ]

\* variant of FinalUpdate: the completion time is not written
FinalUpdateWithoutTimestamp(run) ==
  [ run_id |-> UNDEF, status |-> "completed", conclusion |-> run.conclusion,
    started_at |-> UNDEF, completed_at |-> UNDEF ]

\* the object of the final-status write (status, conclusion, completed_at)
FinalUpdate(run) ==
  [ run_id |-> UNDEF, status |-> "completed", conclusion |-> run.conclusion,
    started_at |-> UNDEF, completed_at |-> now ]

\* variant of AfterCorrelation: a completed run ends the monitoring only when it can be recorded
AfterCorrelationNeedsRecord(p, run) ==
  IF run.status = "completed" /\ TrackingEnabled(p) THEN "final" ELSE "waitRun"

\* `if (status === 'completed')`: the call the monitor suspends on after the correlation block
AfterCorrelation(p, run) ==
  IF run.status = "completed"
    THEN IF TrackingEnabled(p) THEN "final" ELSE "returned"
    ELSE "waitRun"

\* variant of LoopHead: the loop runs one attempt too many
LoopHeadOffByOne(n) == IF n <= maxAttempts THEN "poll" ELSE "returned"

\* the loop head `attempt < maxAttempts`: poll again or fall out of the loop
LoopHead(n) == IF n < maxAttempts THEN "poll" ELSE "returned"

\* the 5 s warm-up timer fires: the loop starts and the first list-runs request is issued
MonitorWarmUp(p) ==
  /\ pc[p] = "warmup"
  /\ attempt' = [attempt EXCEPT ![p] = 0]
  /\ pc' = [pc EXCEPT ![p] = LoopHead(0)]
  /\ requests' = [requests EXCEPT ![p] = @ + 1]
  /\ waited' = [waited EXCEPT ![p] = @ + warmUpDelay]
  /\ UNCHANGED <<dbAvailable, records, nextId, now, dbRecordId, latest,
                 ins, endpoint, sawCompleted, lastError, hvars, initRet, script,
                 caller, pushvars, libvars>>

\* variant of MonitorWait: falling out of the loop marks the tracked record as timed out
MonitorWaitMarksTimedOut(p) ==
  /\ pc[p] \in {"waitEmpty", "waitRun", "waitErr"}
  /\ attempt' = [attempt EXCEPT ![p] = @ + 1]
  /\ pc' = [pc EXCEPT ![p] = LoopHead(attempt[p] + 1)]
  /\ requests' = [requests EXCEPT ![p] = IF LoopHead(attempt[p] + 1) = "poll" THEN @ + 1 ELSE @]
  /\ lastError' = [lastError EXCEPT ![p] = "none"]
  /\ records' = IF LoopHead(attempt[p] + 1) = "returned"
                  THEN UpdateWorkflowRunById(records, dbRecordId[p],
                         [status |-> "completed", conclusion |-> "timed_out"])
                  ELSE records
  /\ waited' = [waited EXCEPT ![p] = @ + pollInterval]
  /\ UNCHANGED <<dbAvailable, nextId, now, dbRecordId, latest,
                 ins, endpoint, sawCompleted, hvars, initRet, script, caller, pushvars,
                 libvars>>

\* a poll-interval timer fires: attempt++, then the loop head
MonitorWait(p) ==
  /\ pc[p] \in {"waitEmpty", "waitRun", "waitErr"}
  /\ attempt' = [attempt EXCEPT ![p] = @ + 1]
  /\ pc' = [pc EXCEPT ![p] = LoopHead(attempt[p] + 1)]
  /\ requests' = [requests EXCEPT ![p] = IF LoopHead(attempt[p] + 1) = "poll" THEN @ + 1 ELSE @]
  /\ lastError' = [lastError EXCEPT ![p] = "none"]
  /\ waited' = [waited EXCEPT ![p] = @ + pollInterval]
  /\ UNCHANGED <<dbAvailable, records, nextId, now, dbRecordId, latest,
                 ins, endpoint, sawCompleted, hvars, initRet, script, caller, pushvars,
                 libvars>>

\* the list-runs request returns no runs
MonitorPollEmpty(p) ==
  /\ pc[p] = "poll"
  /\ pc' = [pc EXCEPT ![p] = "waitEmpty"]
  /\ UNCHANGED <<dbAvailable, records, nextId, now, dbRecordId, attempt, latest,
                 ins, endpoint, requests, sawCompleted, lastError, hvars, initRet, script,
                 caller, waited, pushvars, libvars>>

\* variant of CatchFetchError: the catch block rethrows
CatchFetchErrorRethrows(e) == "raised"

\* variant of CatchFetchError: an error without a response payload ends the monitoring
CatchFetchErrorGivesUp(e) == IF e = "error_response" THEN "waitErr" ELSE "returned"

\* the catch block of the loop body: either shape of error is logged, then the interval timer is set
CatchFetchError(e) == IF e = "error_response" THEN "waitErr" ELSE "waitErr"

\* the list-runs request raises: the catch block logs and waits
MonitorPollError(p) ==
  /\ pc[p] = "poll"
  /\ \E e \in FetchErrors :
       /\ pc' = [pc EXCEPT ![p] = CatchFetchError(e)]
       /\ lastError' = [lastError EXCEPT ![p] = e]
  /\ UNCHANGED <<dbAvailable, records, nextId, now, dbRecordId, attempt, latest,
                 ins, endpoint, requests, sawCompleted, hvars, initRet, script,
                 caller, waited, pushvars, libvars>>

\* the list-runs request returns runs: latestRun is the first one
MonitorPollRun(p, run) ==
  /\ pc[p] = "poll"
  /\ LET to == IF TrackingEnabled(p) THEN "lookup" ELSE AfterCorrelation(p, run) IN
       /\ pc' = [pc EXCEPT ![p] = to]
       /\ latest' = [latest EXCEPT ![p] = IF to \in {"lookup", "final"} THEN run ELSE NoRun]
       /\ sawCompleted' = [sawCompleted EXCEPT ![p] = (run.status = "completed")]
  /\ UNCHANGED <<dbAvailable, records, nextId, now, dbRecordId, attempt,
                 ins, endpoint, requests, lastError, hvars, initRet, script,
                 caller, waited, pushvars, libvars>>

\* getWorkflowRunByRunId resolves: without a row the correlation write is issued,
\* with a row the block is over
MonitorLookupSucceeds(p) ==
  /\ pc[p] = "lookup"
  /\ LET run == latest[p] IN
     \/ /\ RowsWithRunId(records, run.id) = {}
        /\ pc' = [pc EXCEPT ![p] = "correlate"]
        /\ latest' = latest
     \/ /\ RowsWithRunId(records, run.id) # {}
        /\ pc' = [pc EXCEPT ![p] = AfterCorrelation(p, run)]
        /\ latest' = [latest EXCEPT ![p] = IF AfterCorrelation(p, run) = "final" THEN run ELSE NoRun]
  /\ UNCHANGED <<dbAvailable, records, nextId, now, dbRecordId, attempt,
                 ins, endpoint, requests, sawCompleted, lastError, hvars, initRet, script,
                 caller, waited, pushvars, libvars>>

\* variant of CatchUpdateError: without the inner try/catch the error reaches the
\* catch block of the loop body, which logs and sets the interval timer
CatchUpdateErrorInLoopCatch(p, run) == "waitErr"

\* the catch block of the correlation block: the error is logged and control
\* continues with `if (status === 'completed')`
CatchUpdateError(p, run) == AfterCorrelation(p, run)

\* getWorkflowRunByRunId rejects: the error is logged and the block is over
MonitorLookupFails(p) ==
  /\ pc[p] = "lookup"
  /\ LET run == latest[p] IN
     /\ pc' = [pc EXCEPT ![p] = CatchUpdateError(p, run)]
     /\ latest' = [latest EXCEPT ![p] = IF CatchUpdateError(p, run) = "final" THEN run ELSE NoRun]
  /\ UNCHANGED <<dbAvailable, records, nextId, now, dbRecordId, attempt,
                 ins, endpoint, requests, sawCompleted, lastError, hvars, initRet, script,
                 caller, waited, pushvars, libvars>>

\* getWorkflowRunByRunId returns (or fails, which is logged)
MonitorLookupReturns(p) ==
  \/ MonitorLookupSucceeds(p)
  \/ MonitorLookupFails(p)

\* the correlation write resolves: the row is updated and the block is over
MonitorCorrelateSucceeds(p) ==
  /\ pc[p] = "correlate"
  /\ LET run == latest[p] IN
     /\ ~UpdateByIdRejected(records, dbRecordId[p], CorrelationUpdate(run))
     /\ records' = UpdateWorkflowRunById(records, dbRecordId[p], CorrelationUpdate(run))
     /\ pc' = [pc EXCEPT ![p] = AfterCorrelation(p, run)]
     /\ latest' = [latest EXCEPT ![p] = IF AfterCorrelation(p, run) = "final" THEN run ELSE NoRun]
  /\ UNCHANGED <<dbAvailable, nextId, now, dbRecordId, attempt,
                 ins, endpoint, requests, sawCompleted, lastError, hvars, initRet, script,
                 caller, waited, pushvars, libvars>>

\* the correlation write rejects: the error is logged and the block is over
MonitorCorrelateFails(p) ==
  /\ pc[p] = "correlate"
  /\ LET run == latest[p] IN
     /\ pc' = [pc EXCEPT ![p] = CatchUpdateError(p, run)]
     /\ latest' = [latest EXCEPT ![p] = IF CatchUpdateError(p, run) = "final" THEN run ELSE NoRun]
  /\ UNCHANGED <<dbAvailable, records, nextId, now, dbRecordId, attempt,
                 ins, endpoint, requests, sawCompleted, lastError, hvars, initRet, script,
                 caller, waited, pushvars, libvars>>

\* the correlation write returns (or fails, which is logged)
MonitorCorrelateReturns(p) ==
  \/ MonitorCorrelateSucceeds(p)
  \/ MonitorCorrelateFails(p)

\* variant of MonitorFinalSucceeds: the record of a finished run is deleted
MonitorFinalSucceedsDeletes(p) ==
  /\ pc[p] = "final"
  /\ records' = [ id \in DOMAIN records \ {dbRecordId[p]} |-> records[id] ]
  /\ pc' = [pc EXCEPT ![p] = "returned"]
  /\ latest' = [latest EXCEPT ![p] = NoRun]
  /\ UNCHANGED <<dbAvailable, nextId, now, dbRecordId, attempt,
                 ins, endpoint, requests, sawCompleted, lastError, hvars, initRet, script,
                 caller, waited, pushvars, libvars>>

\* the final-status write resolves: the row is updated and the monitor returns
MonitorFinalSucceeds(p) ==
  /\ pc[p] = "final"
  /\ ~UpdateByIdRejected(records, dbRecordId[p], FinalUpdate(latest[p]))
  /\ records' = UpdateWorkflowRunById(records, dbRecordId[p], FinalUpdate(latest[p]))
  /\ pc' = [pc EXCEPT ![p] = "returned"]
  /\ latest' = [latest EXCEPT ![p] = NoRun]
  /\ UNCHANGED <<dbAvailable, nextId, now, dbRecordId, attempt,
                 ins, endpoint, requests, sawCompleted, lastError, hvars, initRet, script,
                 caller, waited, pushvars, libvars>>

\* the final-status write rejects: the error is logged and the monitor returns
MonitorFinalFails(p) ==
  /\ pc[p] = "final"
  /\ pc' = [pc EXCEPT ![p] = "returned"]
  /\ latest' = [latest EXCEPT ![p] = NoRun]
  /\ UNCHANGED <<dbAvailable, records, nextId, now, dbRecordId, attempt,
                 ins, endpoint, requests, sawCompleted, lastError, hvars, initRet, script,
                 caller, waited, pushvars, libvars>>

\* the final-status write returns (or fails, which is logged); the monitor returns
MonitorFinalReturns(p) ==
  \/ MonitorFinalSucceeds(p)
  \/ MonitorFinalFails(p)

(* ------------------ src/actions: monitorWorkflow ---------------------- *)

\* monitorWorkflow, the monitor of the dispatchAndMonitorWorkflow exported from
\* src/actions: its warm-up, its handling of an empty list and of a fetch error
\* and its timers are the code of monitorWorkflowRun; the body for a reported
\* run makes no Gateway call: `if (status === 'completed')` returns, any other
\* status sets the interval timer
MonitorWorkflowPollRun(p, run) ==
  /\ pc[p] = "poll"
  /\ pc' = [pc EXCEPT ![p] = IF run.status = "completed" THEN "returned" ELSE "waitRun"]
  /\ sawCompleted' = [sawCompleted EXCEPT ![p] = (run.status = "completed")]
  /\ UNCHANGED <<dbAvailable, records, nextId, now, dbRecordId, attempt, latest,
                 ins, endpoint, requests, lastError, hvars, initRet, script,
                 caller, waited, pushvars, libvars>>

\* the polls of monitorWorkflow, the list-runs responses drawn from Runs
MonitorWorkflow(p, Runs) ==
  \/ MonitorWarmUp(p)
  \/ MonitorPollEmpty(p)
  \/ MonitorPollError(p)
  \/ \E run \in Runs : MonitorWorkflowPollRun(p, run)

(* ------------------ dispatchAndMonitorWorkflow: .catch ----------------- *)

\* an error escapes the monitor's loop (the catch block of the loop body raises
\* while it logs a fetch error): the monitor's promise rejects and the .catch
\* handler attached by dispatchAndMonitorWorkflow logs it; a promise that is
\* already settled keeps its outcome
MonitorRejects(p) ==
  /\ pc[p] = "poll"
  /\ pc' = [pc EXCEPT ![p] = "logged"]
  /\ lastError' = [lastError EXCEPT ![p] = "escaped"]
  /\ caller' = [caller EXCEPT ![p] = IF @ = "pending" THEN "rejected" ELSE @]
  /\ UNCHANGED <<dbAvailable, records, nextId, now, dbRecordId, attempt, latest,
                 ins, endpoint, requests, sawCompleted, hvars, initRet, script,
                 waited, pushvars, libvars>>

(* ----------------------------- push handler --------------------------- *)

\* variant of AllSettled: Promise.all over promises that reject, which settles
\* with the first rejection
FirstRejectionOrAllSettled(S) ==
  \/ \E p \in S : caller[p] = "rejected"
  \/ \A p \in S : caller[p] = "resolved"

\* `await Promise.all(dispatchPromises)`: every wrapper catches the error of its
\* dispatchAndMonitorWorkflow call, so the promises never reject and Promise.all
\* resolves when each call has resolved or rejected
AllSettled(S) == \A p \in S : caller[p] \in {"resolved", "rejected"}

\* a push event is delivered: without a repository owner the handler logs and
\* returns, otherwise the list-workflows request is issued
PushReceived ==
  /\ server = "serving"
  /\ push = "idle"
  /\ \E owner \in BOOLEAN : push' = IF owner THEN "list" ELSE "done"
  /\ UNCHANGED <<dbAvailable, records, nextId, now, pc, dbRecordId, attempt, latest,
                 ins, endpoint, requests, sawCompleted, lastError, hvars, initRet, script,
                 caller, waited, selected, server, libvars>>

\* the list-workflows request raises: the outer catch block logs, the handler returns
PushListFails ==
  /\ push = "list"
  /\ push' = "done"
  /\ UNCHANGED <<dbAvailable, records, nextId, now, pc, dbRecordId, attempt, latest,
                 ins, endpoint, requests, sawCompleted, lastError, hvars, initRet, script,
                 caller, waited, selected, server, libvars>>

\* the list-workflows request returns: the filter selects S; with none the handler
\* returns; otherwise map() calls dispatchAndMonitorWorkflow for every selected
\* workflow, each call running up to its first awaited call (the insert when the
\* flag is true, else the dispatch endpoint call), and Promise.all is awaited
PushListReturns ==
  /\ push = "list"
  /\ \E S \in SUBSET Procs :
       /\ selected' = S
       /\ push' = IF S = {} THEN "done" ELSE "waiting"
       /\ pc' = [p \in Procs |->
                   IF p \in S THEN (IF dbAvailable THEN "insert" ELSE "dispatch") ELSE pc[p]]
       /\ ins' = [p \in Procs |-> IF p \in S /\ dbAvailable THEN "pending" ELSE ins[p]]
       /\ caller' = [p \in Procs |-> IF p \in S THEN "pending" ELSE caller[p]]
  /\ UNCHANGED <<dbAvailable, records, nextId, now, dbRecordId, attempt, latest,
                 endpoint, requests, sawCompleted, lastError, hvars, initRet, script,
                 waited, server, libvars>>

\* Promise.all resolves: the handler returns
PushSettled ==
  /\ push = "waiting"
  /\ AllSettled(selected)
  /\ push' = "done"
  /\ UNCHANGED <<dbAvailable, records, nextId, now, pc, dbRecordId, attempt, latest,
                 ins, endpoint, requests, sawCompleted, lastError, hvars, initRet, script,
                 caller, waited, selected, server, libvars>>

(* ---------------------------- server start-up -------------------------- *)

\* initializeServer is called: validateEnvironment throws (index.ts logs and
\* exits) or the start-up connection test is issued
ServerStart ==
  /\ server = "idle"
  /\ \E valid \in BOOLEAN : server' = IF valid THEN "testing" ELSE "envFailed"
  /\ UNCHANGED <<dbAvailable, records, nextId, now, pc, dbRecordId, attempt, latest,
                 ins, endpoint, requests, sawCompleted, lastError, hvars, initRet, script,
                 caller, waited, push, selected, libvars>>

\* testConnection of src/database/client.ts: resolves when SELECT NOW() succeeds,
\* otherwise logs the error and rethrows it
StartupTestConnection(connected) == IF connected THEN "resolved" ELSE "rejected"

\* `await testConnection()` completes: on success createApp and startServer run
\* and the server listens; a rejection is not caught by initializeServer, whose
\* promise rejects (index.ts logs and exits)
ServerTestReturns ==
  /\ server = "testing"
  /\ \E connected \in BOOLEAN :
       server' = IF StartupTestConnection(connected) = "resolved" THEN "serving" ELSE "dbFailed"
  /\ UNCHANGED <<dbAvailable, records, nextId, now, pc, dbRecordId, attempt, latest,
                 ins, endpoint, requests, sawCompleted, lastError, hvars, initRet, script,
                 caller, waited, push, selected, libvars>>

(* ----------------------- workflow-run event handler ------------------- *)

\* variant of UpdateWorkflowRunByRunId: rows that carry no run id are updated as well
UpdateWorkflowRunByRunIdOrUnset(recs, runId, u) ==
  IF Supplied(u) = {} THEN recs
  ELSE [ id \in DOMAIN recs |->
           IF recs[id].run_id \in {runId, NULL} THEN ApplyUpdates(recs[id], u) ELSE recs[id] ]

\* WorkflowDatabase.updateWorkflowRunByRunId: the table after the UPDATE ... WHERE run_id
UpdateWorkflowRunByRunId(recs, runId, u) ==
  IF NoFields(u) THEN recs
  ELSE [ id \in DOMAIN recs |->
           IF recs[id].run_id = runId THEN ApplyUpdates(recs[id], u) ELSE recs[id] ]

\* whether the UPDATE ... WHERE run_id violates a CHECK constraint
UpdateByRunIdRejected(recs, runId, u) ==
  /\ ~NoFields(u)
  /\ \E id \in RowsWithRunId(recs, runId) : ~CheckOk(ApplyUpdates(recs[id], u))

\* existingRun: the row getWorkflowRunByRunId returns (ORDER BY created_at DESC LIMIT 1)
ExistingRun(recs, runId) ==
  CHOOSE id \in RowsWithRunId(recs, runId) : \A o \in RowsWithRunId(recs, runId) : o <= id

\* variant of HandlerUpdate: the completion time is the time of the handling
HandlerUpdateStampsNow(ev) ==
  [ status |-> ev.status, conclusion |-> ev.conclusion,
    started_at |-> IF ev.run_started_at # NULL THEN ev.run_started_at ELSE UNDEF,
    completed_at |-> IF ev.status = "completed" THEN now ELSE UNDEF ]

\* the object recordWorkflowRun passes to updateWorkflowRunByRunId
HandlerUpdate(ev) ==
  [ status |-> ev.status, conclusion |-> ev.conclusion,
    started_at |-> IF ev.run_started_at # NULL THEN ev.run_started_at ELSE UNDEF,
    completed_at |-> IF ev.status = "completed" THEN ev.updated_at ELSE UNDEF ]

\* the object recordWorkflowRun passes to insertWorkflowRun
HandlerRun(ev) ==
  [ run_id |-> ev.id, status |-> ev.status, conclusion |-> ev.conclusion,
    triggered_at |-> ev.created_at,
    started_at |-> IF ev.run_started_at # NULL THEN ev.run_started_at ELSE UNDEF,
    completed_at |-> IF ev.status = "completed" THEN ev.updated_at ELSE UNDEF ]

\* the workflow_run payload of an event about the run `run`
EventOf(run, created, updated) ==
  [ id |-> run.id, status |-> run.status, conclusion |-> run.conclusion,
    run_started_at |-> run.run_started_at, created_at |-> created, updated_at |-> updated ]

NoEvent == EventOf(NoRun, NULL, NULL)

\* variant of CatchRecordError: the catch block rethrows
CatchRecordErrorRethrows == "raised"

\* where an invocation is after the catch block of recordWorkflowRun: it has
\* logged the error and returned {}
CatchRecordError == "idle"

\* recordWorkflowRun is called: the flag is read; the lookup is issued or {} returned
HandlerStart(h, ev) ==
  /\ hpc[h] = "idle"
  /\ IF dbAvailable
       THEN /\ hpc' = [hpc EXCEPT ![h] = "lookup"]
            /\ hevent' = [hevent EXCEPT ![h] = ev]
       ELSE /\ hpc' = hpc
            /\ hevent' = hevent
  /\ hret' = [hret EXCEPT ![h] = NULL]
  /\ hcaught' = [hcaught EXCEPT ![h] = FALSE]
  /\ UNCHANGED <<dbAvailable, records, nextId, now, pc, dbRecordId, attempt, latest,
                 ins, endpoint, requests, sawCompleted, lastError, initRet, script,
                 caller, waited, pushvars, libvars>>

\* getWorkflowRunByRunId returns: the update or the insert is issued; a failure returns {}
HandlerLookupReturns(h) ==
  /\ hpc[h] = "lookup"
  /\ \/ /\ RowsWithRunId(records, hevent[h].id) # {}
        /\ hpc' = [hpc EXCEPT ![h] = "update"]
        /\ hret' = [hret EXCEPT ![h] = ExistingRun(records, hevent[h].id)]
        /\ UNCHANGED <<hevent, hcaught>>
     \/ /\ RowsWithRunId(records, hevent[h].id) = {}
        /\ hpc' = [hpc EXCEPT ![h] = "insert"]
        /\ UNCHANGED <<hret, hevent, hcaught>>
     \/ /\ hpc' = [hpc EXCEPT ![h] = CatchRecordError]
        /\ hcaught' = [hcaught EXCEPT ![h] = TRUE]
        /\ hevent' = [hevent EXCEPT ![h] = NoEvent]
        /\ hret' = hret
  /\ UNCHANGED <<dbAvailable, records, nextId, now, pc, dbRecordId, attempt, latest,
                 ins, endpoint, requests, sawCompleted, lastError, initRet, script,
                 caller, waited, pushvars, libvars>>

\* updateWorkflowRunByRunId returns: { dbRecordId: existingRun.id }; a failure returns {}
HandlerUpdateReturns(h) ==
  /\ hpc[h] = "update"
  /\ \/ /\ ~UpdateByRunIdRejected(records, hevent[h].id, HandlerUpdate(hevent[h]))
        /\ records' = UpdateWorkflowRunByRunId(records, hevent[h].id, HandlerUpdate(hevent[h]))
        /\ hpc' = [hpc EXCEPT ![h] = "idle"]
        /\ UNCHANGED <<hret, hcaught>>
     \/ /\ records' = records
        /\ hpc' = [hpc EXCEPT ![h] = CatchRecordError]
        /\ hcaught' = [hcaught EXCEPT ![h] = TRUE]
        /\ hret' = [hret EXCEPT ![h] = NULL]
  /\ hevent' = [hevent EXCEPT ![h] = NoEvent]
  /\ UNCHANGED <<dbAvailable, nextId, now, pc, dbRecordId, attempt, latest,
                 ins, endpoint, requests, sawCompleted, lastError, initRet, script,
                 caller, waited, pushvars, libvars>>

\* insertWorkflowRun returns: { dbRecordId }; a failure returns {}
HandlerInsertReturns(h) ==
  /\ hpc[h] = "insert"
  /\ \/ /\ CheckOk(InsertRow(HandlerRun(hevent[h]), NULL))
        /\ nextId <= MaxRecords
        /\ records' = (nextId :> InsertRow(HandlerRun(hevent[h]), NULL)) @@ records
        /\ nextId' = nextId + 1
        /\ hret' = [hret EXCEPT ![h] = nextId]
        /\ hpc' = [hpc EXCEPT ![h] = "idle"]
        /\ hcaught' = hcaught
     \/ /\ hret' = [hret EXCEPT ![h] = NULL]
        /\ hpc' = [hpc EXCEPT ![h] = CatchRecordError]
        /\ hcaught' = [hcaught EXCEPT ![h] = TRUE]
        /\ UNCHANGED <<records, nextId>>
  /\ hevent' = [hevent EXCEPT ![h] = NoEvent]
  /\ UNCHANGED <<dbAvailable, now, pc, dbRecordId, attempt, latest,
                 ins, endpoint, requests, sawCompleted, lastError, initRet, script,
                 caller, waited, pushvars, libvars>>

(* ------------------- the Gateway called directly ---------------------- *)

\* an update object with no field supplied
NoUpdate ==
  [ run_id |-> UNDEF, status |-> UNDEFS, conclusion |-> UNDEFS,
    started_at |-> UNDEF, completed_at |-> UNDEF ]

\* the update objects a caller passes: no field supplied, or some of the fields
GatewayUpdates ==
  { NoUpdate,
    [NoUpdate EXCEPT !.status = "completed", !.conclusion = "success", !.completed_at = 1] }

\* the objects a caller passes to insertWorkflowRun
GatewayRuns ==
  { [ DispatchRun EXCEPT !.run_id = r, !.started_at = 1 ] : r \in {UNDEF, 1} }

\* the operation in gwCall: its name, its key (id or run id), its objects and
\* whether its query is in flight; NoCall once the query has completed
Call(op, key, u, run, at) == [op |-> op, key |-> key, u |-> u, run |-> run, pc |-> at]

NoCall == Call("none", NULL, NoUpdate, [DispatchRun EXCEPT !.triggered_at = NULL], "done")

\* what an operation gave its caller: a value, or the error it raised
Returned(kind, value) == [kind |-> kind, value |-> value]

\* insertWorkflowRun is called: the INSERT is issued
CallInsertWorkflowRun(run) ==
  /\ gwCall.pc = "done"
  /\ gwCall' = Call("insert", NULL, NoUpdate, run, "query")
  /\ gwQueries' = 1
  /\ gwRet' = Returned("pending", NULL)
  /\ UNCHANGED <<dbAvailable, records, nextId, now, pc, dbRecordId, attempt, latest,
                 ins, endpoint, requests, sawCompleted, lastError, hvars, initRet, script,
                 caller, waited, pushvars, migvars, clientvars>>

\* updateWorkflowRunById / updateWorkflowRunByRunId is called: with no field
\* supplied it logs a warning and returns false, otherwise the UPDATE is issued
CallUpdate(op, key, u) ==
  /\ gwCall.pc = "done"
  /\ IF NoFields(u)
       THEN /\ gwCall' = Call(op, key, u, NoCall.run, "done")
            /\ gwQueries' = 0
            /\ gwRet' = Returned("false", NULL)
       ELSE /\ gwCall' = Call(op, key, u, NoCall.run, "query")
            /\ gwQueries' = 1
            /\ gwRet' = Returned("pending", NULL)
  /\ UNCHANGED <<dbAvailable, records, nextId, now, pc, dbRecordId, attempt, latest,
                 ins, endpoint, requests, sawCompleted, lastError, hvars, initRet, script,
                 caller, waited, pushvars, migvars, clientvars>>

CallUpdateWorkflowRunById(id, u) == CallUpdate("updateById", id, u)

CallUpdateWorkflowRunByRunId(runId, u) == u.run_id = UNDEF /\ CallUpdate("updateByRunId", runId, u)

\* getWorkflowRunByRunId / getWorkflowRunsByRepo is called: the SELECT is issued
CallGet(op, key) ==
  /\ gwCall.pc = "done"
  /\ gwCall' = Call(op, key, NoUpdate, NoCall.run, "query")
  /\ gwQueries' = 1
  /\ gwRet' = Returned("pending", NULL)
  /\ UNCHANGED <<dbAvailable, records, nextId, now, pc, dbRecordId, attempt, latest,
                 ins, endpoint, requests, sawCompleted, lastError, hvars, initRet, script,
                 caller, waited, pushvars, migvars, clientvars>>

CallGetWorkflowRunByRunId(runId) == CallGet("getByRunId", runId)

CallGetWorkflowRunsByRepo == CallGet("listByRepo", NULL)

\* result.rowCount of the UPDATE in gwCall
RowCount(recs, call) ==
  IF call.op = "updateById"
    THEN Cardinality({ id \in DOMAIN recs : id = call.key })
    ELSE Cardinality(RowsWithRunId(recs, call.key))

\* whether the table refuses the query in gwCall (a CHECK constraint; for the
\* insert also the row limit of the table)
QueryRejected(recs, call) ==
  CASE call.op = "insert" -> ~CheckOk(InsertRow(call.run, NULL)) \/ nextId > MaxRecords
    [] call.op = "updateById" -> UpdateByIdRejected(recs, call.key, call.u)
    [] call.op = "updateByRunId" -> UpdateByRunIdRejected(recs, call.key, call.u)
    [] OTHER -> FALSE

\* the table after the query in gwCall
QueryEffect(recs, call) ==
  CASE call.op = "insert" -> (nextId :> InsertRow(call.run, NULL)) @@ recs
    [] call.op = "updateById" -> UpdateWorkflowRunById(recs, call.key, call.u)
    [] call.op = "updateByRunId" -> UpdateWorkflowRunByRunId(recs, call.key, call.u)
    [] OTHER -> recs

\* what the operation in gwCall returns when its query has succeeded
QueryResult(recs, call) ==
  CASE call.op = "insert" -> Returned("id", nextId)
    [] call.op \in {"updateById", "updateByRunId"} ->
         Returned(IF RowCount(recs, call) > 0 THEN "true" ELSE "false", NULL)
    [] call.op = "getByRunId" ->
         IF RowsWithRunId(recs, call.key) = {} THEN Returned("null", NULL)
         ELSE Returned("row", ExistingRun(recs, call.key))
    [] OTHER -> Returned("rows", Cardinality(DOMAIN recs))

\* the query of the operation in gwCall succeeds: the operation returns
PoolQuerySucceeds ==
  /\ gwCall.pc = "query"
  /\ ~QueryRejected(records, gwCall)
  /\ records' = QueryEffect(records, gwCall)
  /\ nextId' = IF gwCall.op = "insert" THEN nextId + 1 ELSE nextId
  /\ gwRet' = QueryResult(records, gwCall)
  /\ gwCall' = NoCall
  /\ UNCHANGED <<dbAvailable, now, pc, dbRecordId, attempt, latest,
                 ins, endpoint, requests, sawCompleted, lastError, hvars, initRet, script,
                 caller, waited, pushvars, gwQueries, migvars, clientvars>>

\* variant of CatchQueryError: the operation issues its query again
CatchQueryErrorRetries == "retry"

\* the catch block of every operation: the error is logged and rethrown
CatchQueryError == "raised"

\* the query of the operation in gwCall fails: the error is logged and raised
\* to the caller
PoolQueryFails ==
  /\ gwCall.pc = "query"
  /\ IF CatchQueryError = "raised"
       THEN /\ gwRet' = Returned("raised", NULL)
            /\ gwCall' = NoCall
            /\ gwQueries' = gwQueries
       ELSE /\ gwQueries < MaxPolls
            /\ gwQueries' = gwQueries + 1
            /\ UNCHANGED <<gwRet, gwCall>>
  /\ UNCHANGED <<dbAvailable, records, nextId, now, pc, dbRecordId, attempt, latest,
                 ins, endpoint, requests, sawCompleted, lastError, hvars, initRet, script,
                 caller, waited, pushvars, migvars, clientvars>>

(* --------------------------- migration runner ------------------------- *)

\* a migration file `<version>_<name>.sql`: the digits of its version and the
\* UTF-16 code units of its name
MigrationFile(version, name) == [version |-> version, name |-> name]

\* the files developers can add: zero-padded versions as the README numbers
\* them, and versions without padding, which the filename pattern ^(\d+)_ admits
MigrationFiles ==
  { MigrationFile(<<0, 0, 1>>, <<97>>), MigrationFile(<<0, 0, 2>>, <<98>>),
    MigrationFile(<<9>>, <<99>>), MigrationFile(<<1, 0>>, <<100>>) }

\* the UTF-16 code units of the filename: digits, '_', the name, ".sql"
Filename(f) ==
  [i \in 1..Len(f.version) |-> 48 + f.version[i]] \o <<95>> \o f.name \o <<46, 115, 113, 108>>

\* the default comparison of Array.prototype.sort: strings compared code unit
\* by code unit, a proper prefix first
CodeUnitsLess(a, b) ==
  \/ \E k \in 1..Len(a) :
       /\ k <= Len(b)
       /\ \A i \in 1..(k - 1) : a[i] = b[i]
       /\ a[k] < b[k]
  \/ Len(a) < Len(b) /\ \A i \in 1..Len(a) : a[i] = b[i]

\* getMigrationFiles: `.sort()` of the filenames
RECURSIVE SortFiles(_)
SortFiles(S) ==
  IF S = {} THEN <<>>
  ELSE LET first == CHOOSE f \in S : \A g \in S \ {f} : CodeUnitsLess(Filename(f), Filename(g))
       IN <<first>> \o SortFiles(S \ {first})

\* `allMigrations.filter(migration => !appliedMigrations.has(migration.version))`
PendingOf(all, applied) ==
  LET NotApplied(m) == m.version \notin applied IN SelectSeq(all, NotApplied)

\* a developer adds a migration file to the directory between two runs
AddMigrationFile(f) ==
  /\ migpc \in {"idle", "done", "failed"}
  /\ f \notin migFiles
  /\ migFiles' = migFiles \cup {f}
  /\ UNCHANGED <<dbAvailable, records, nextId, now, pc, dbRecordId, attempt, latest,
                 ins, endpoint, requests, sawCompleted, lastError, hvars, initRet, script,
                 caller, waited, pushvars, gwvars, clientvars,
                 schemaMigrations, pendingMigrations, migpc, migPending, migApplied>>

\* runMigrations is called: ensureMigrationsTable and getAppliedMigrations are issued
RunMigrationsStart ==
  /\ migpc \in {"idle", "done", "failed"}
  /\ migpc' = "reading"
  /\ migPending' = {}
  /\ migApplied' = <<>>
  /\ pendingMigrations' = <<>>
  /\ UNCHANGED <<dbAvailable, records, nextId, now, pc, dbRecordId, attempt, latest,
                 ins, endpoint, requests, sawCompleted, lastError, hvars, initRet, script,
                 caller, waited, pushvars, gwvars, clientvars, migFiles, schemaMigrations>>

\* getAppliedMigrations returns: the files are listed, sorted and filtered; with
\* nothing pending the run is over, otherwise the first migration is started
RunMigrationsFilters ==
  /\ migpc = "reading"
  /\ LET pending == PendingOf(SortFiles(migFiles), schemaMigrations) IN
       /\ pendingMigrations' = pending
       /\ migPending' = { pending[i] : i \in DOMAIN pending }
       /\ migpc' = IF pending = <<>> THEN "done" ELSE "applying"
  /\ UNCHANGED <<dbAvailable, records, nextId, now, pc, dbRecordId, attempt, latest,
                 ins, endpoint, requests, sawCompleted, lastError, hvars, initRet, script,
                 caller, waited, pushvars, gwvars, clientvars,
                 migFiles, schemaMigrations, migApplied>>

\* ensureMigrationsTable or getAppliedMigrations fails: the catch block logs and
\* the process exits with status 1
RunMigrationsReadFails ==
  /\ migpc = "reading"
  /\ migpc' = "failed"
  /\ UNCHANGED <<dbAvailable, records, nextId, now, pc, dbRecordId, attempt, latest,
                 ins, endpoint, requests, sawCompleted, lastError, hvars, initRet, script,
                 caller, waited, pushvars, gwvars, clientvars,
                 migFiles, schemaMigrations, pendingMigrations, migPending, migApplied>>

\* applyMigration commits: the version is recorded; the loop goes on to the next
\* pending migration or the run is over
ApplyMigrationCommits ==
  /\ migpc = "applying"
  /\ schemaMigrations' = schemaMigrations \cup {Head(pendingMigrations).version}
  /\ migApplied' = Append(migApplied, Head(pendingMigrations))
  /\ pendingMigrations' = Tail(pendingMigrations)
  /\ migpc' = IF Tail(pendingMigrations) = <<>> THEN "done" ELSE "applying"
  /\ UNCHANGED <<dbAvailable, records, nextId, now, pc, dbRecordId, attempt, latest,
                 ins, endpoint, requests, sawCompleted, lastError, hvars, initRet, script,
                 caller, waited, pushvars, gwvars, clientvars, migFiles, migPending>>

\* applyMigration fails: the transaction is rolled back, the error reaches the
\* catch block of runMigrations and the process exits with status 1
ApplyMigrationRollsBack ==
  /\ migpc = "applying"
  /\ migpc' = "failed"
  /\ pendingMigrations' = <<>>
  /\ UNCHANGED <<dbAvailable, records, nextId, now, pc, dbRecordId, attempt, latest,
                 ins, endpoint, requests, sawCompleted, lastError, hvars, initRet, script,
                 caller, waited, pushvars, gwvars, clientvars,
                 migFiles, schemaMigrations, migPending, migApplied>>

(* --------------------------- the shared client ------------------------ *)

\* a caller that is not inside getClient or closeClient
NotCalling == {"idle", "returned", "raised"}

\* what a caller sees of the value the variable client holds at `return client`
Seen(held, objects) == IF held = NULL THEN "null" ELSE objects[held]

\* getClient is called: when the variable is null a Client is created, stored in
\* the variable, and its connect() awaited; otherwise the variable is returned
GetClientCall(c) ==
  /\ gpc[c] \in NotCalling
  /\ IF client = NULL
       THEN /\ Len(clients) < MaxClients
            /\ clients' = Append(clients, "connecting")
            /\ client' = Len(clients) + 1
            /\ gobj' = [gobj EXCEPT ![c] = Len(clients) + 1]
            /\ gpc' = [gpc EXCEPT ![c] = "connect"]
            /\ got' = [got EXCEPT ![c] = "none"]
       ELSE /\ gpc' = [gpc EXCEPT ![c] = "returned"]
            /\ got' = [got EXCEPT ![c] = Seen(client, clients)]
            /\ UNCHANGED <<client, clients, gobj>>
  /\ UNCHANGED <<dbAvailable, records, nextId, now, pc, dbRecordId, attempt, latest,
                 ins, endpoint, requests, sawCompleted, lastError, hvars, initRet, script,
                 caller, waited, pushvars, gwvars, migvars>>

\* connect() resolves: getClient returns what the variable holds by then
ConnectResolves(c) ==
  /\ gpc[c] = "connect"
  /\ clients' = [clients EXCEPT ![gobj[c]] = "connected"]
  /\ gpc' = [gpc EXCEPT ![c] = "returned"]
  /\ gobj' = [gobj EXCEPT ![c] = NULL]
  /\ got' = [got EXCEPT ![c] = Seen(client, clients')]
  /\ client' = client
  /\ UNCHANGED <<dbAvailable, records, nextId, now, pc, dbRecordId, attempt, latest,
                 ins, endpoint, requests, sawCompleted, lastError, hvars, initRet, script,
                 caller, waited, pushvars, gwvars, migvars>>

\* connect() rejects: getClient raises; the variable keeps the Client
ConnectRejects(c) ==
  /\ gpc[c] = "connect"
  /\ clients' = [clients EXCEPT ![gobj[c]] = "failed"]
  /\ gpc' = [gpc EXCEPT ![c] = "raised"]
  /\ gobj' = [gobj EXCEPT ![c] = NULL]
  /\ UNCHANGED <<client, got>>
  /\ UNCHANGED <<dbAvailable, records, nextId, now, pc, dbRecordId, attempt, latest,
                 ins, endpoint, requests, sawCompleted, lastError, hvars, initRet, script,
                 caller, waited, pushvars, gwvars, migvars>>

\* closeClient is called: when the variable holds a Client its end() is awaited
CloseClientCall(c) ==
  /\ gpc[c] \in NotCalling
  /\ IF client # NULL
       THEN /\ gpc' = [gpc EXCEPT ![c] = "end"]
            /\ gobj' = [gobj EXCEPT ![c] = client]
       ELSE /\ gpc' = [gpc EXCEPT ![c] = "returned"]
            /\ gobj' = gobj
  /\ got' = [got EXCEPT ![c] = "none"]
  /\ UNCHANGED <<client, clients>>
  /\ UNCHANGED <<dbAvailable, records, nextId, now, pc, dbRecordId, attempt, latest,
                 ins, endpoint, requests, sawCompleted, lastError, hvars, initRet, script,
                 caller, waited, pushvars, gwvars, migvars>>

\* end() resolves: the variable is set to null
EndResolves(c) ==
  /\ gpc[c] = "end"
  /\ client' = NULL
  /\ gpc' = [gpc EXCEPT ![c] = "returned"]
  /\ gobj' = [gobj EXCEPT ![c] = NULL]
  /\ UNCHANGED <<clients, got>>
  /\ UNCHANGED <<dbAvailable, records, nextId, now, pc, dbRecordId, attempt, latest,
                 ins, endpoint, requests, sawCompleted, lastError, hvars, initRet, script,
                 caller, waited, pushvars, gwvars, migvars>>

\* end() rejects: closeClient logs and rethrows; the variable keeps the Client
EndRejects(c) ==
  /\ gpc[c] = "end"
  /\ gpc' = [gpc EXCEPT ![c] = "raised"]
  /\ gobj' = [gobj EXCEPT ![c] = NULL]
  /\ UNCHANGED <<client, clients, got>>
  /\ UNCHANGED <<dbAvailable, records, nextId, now, pc, dbRecordId, attempt, latest,
                 ins, endpoint, requests, sawCompleted, lastError, hvars, initRet, script,
                 caller, waited, pushvars, gwvars, migvars>>

(* --------------------------- Availability Guard ----------------------- *)

\* variant of TestConnection: the connection is reported usable whatever the test finds
TestConnectionAlwaysTrue(connected) == TRUE

\* WorkflowDatabase.testConnection: true when SELECT NOW() succeeds, false when it
\* fails (the error is logged); it never throws
TestConnection(connected) == connected

\* initializeDatabase: when the connection test completes the flag becomes its
\* result, which is also the value returned
InitializeDatabase ==
  /\ \E connected \in BOOLEAN :
       /\ dbAvailable' = TestConnection(connected)
       /\ initRet' = [ test |-> IF connected THEN "ok" ELSE "failed",
                       ret  |-> IF TestConnection(connected) THEN "true" ELSE "false" ]
  /\ UNCHANGED <<records, nextId, now, pc, dbRecordId, attempt, latest,
                 ins, endpoint, requests, sawCompleted, lastError, hvars, script,
                 caller, waited, pushvars, libvars>>

\* module initialisation: nothing dispatched, no handler running, the flag false
InitProgram ==
  /\ dbAvailable = FALSE
  /\ records = <<>>
  /\ nextId = 1
  /\ now = 1
  /\ pc = [p \in Procs |-> "idle"]
  /\ dbRecordId = [p \in Procs |-> NULL]
  /\ attempt = [p \in Procs |-> 0]
  /\ latest = [p \in Procs |-> NoRun]
  /\ ins = [p \in Procs |-> "none"]
  /\ endpoint = [p \in Procs |-> "none"]
  /\ requests = [p \in Procs |-> 0]
  /\ sawCompleted = [p \in Procs |-> FALSE]
  /\ lastError = [p \in Procs |-> "none"]
  /\ hpc = [h \in Handlers |-> "idle"]
  /\ hevent = [h \in Handlers |-> NoEvent]
  /\ hret = [h \in Handlers |-> NULL]
  /\ hcaught = [h \in Handlers |-> FALSE]
  /\ initRet = [test |-> "none", ret |-> "none"]
  /\ caller = [p \in Procs |-> "none"]
  /\ waited = [p \in Procs |-> 0]
  /\ push = "idle"
  /\ selected = {}
  /\ server = "idle"
  /\ gwCall = NoCall
  /\ gwRet = Returned("none", NULL)
  /\ gwQueries = 0
  /\ migFiles = {}
  /\ schemaMigrations = {}
  /\ pendingMigrations = <<>>
  /\ migpc = "idle"
  /\ migPending = {}
  /\ migApplied = <<>>
  /\ client = NULL
  /\ clients = <<>>
  /\ gpc = [c \in Callers |-> "idle"]
  /\ gobj = [c \in Callers |-> NULL]
  /\ got = [c \in Callers |-> "none"]

Init ==
  /\ InitProgram
  /\ script = <<>>

\* the runs and events of the concurrent specification: valid statuses, started runs
RaceRuns ==
  { r \in ApiRuns : r.status \in ValidStatuses /\ r.conclusion \in {NULLS, "success"}
                    /\ r.run_started_at # NULL }

\* the reports (poll results, events) about a single run of the workflow
OneRun == { r \in RaceRuns : r.id = 1 }

\* dispatchWorkflow as called by dispatchAndMonitorWorkflow
Dispatching(p) ==
  \/ DispatchStart(p)
  \/ DispatchInsertReturns(p)
  \/ DispatchAccepted(p)
  \/ DispatchRejected(p)

\* the polls of monitorWorkflowRun, the list-runs responses drawn from Runs
Polling(p, Runs) ==
  \/ MonitorWarmUp(p)
  \/ MonitorPollEmpty(p)
  \/ MonitorPollError(p)
  \/ \E run \in Runs : MonitorPollRun(p, run)
  \/ MonitorLookupReturns(p)
  \/ MonitorCorrelateReturns(p)
  \/ MonitorFinalReturns(p)

\* one invocation of dispatchAndMonitorWorkflow
Invocation(p, Runs) ==
  \/ Dispatching(p)
  \/ Polling(p, Runs)
  \/ MonitorWait(p)

\* one invocation whose monitor is observed for its first MaxPolls polls
BoundedInvocation(p, Runs) ==
  \/ Dispatching(p)
  \/ Polling(p, Runs)
  \/ requests[p] < MaxPolls /\ MonitorWait(p)

\* one invocation of recordWorkflowRun, the events drawn from Runs
Handler(h, Runs) ==
  \/ \E run \in Runs, c \in ApiTimes, u \in ApiTimes : HandlerStart(h, EventOf(run, c, u))
  \/ HandlerLookupReturns(h)
  \/ HandlerUpdateReturns(h)
  \/ HandlerInsertReturns(h)

\* concurrent invocations for the same workflow
Next ==
  \/ InitializeDatabase
  \/ \E p \in Procs : BoundedInvocation(p, RaceRuns)

Spec == Init /\ [][Next]_vars

\* one invocation next to the workflow-run event handler
NextEvents ==
  \/ InitializeDatabase
  \/ BoundedInvocation(1, RaceRuns)
  \/ \E h \in Handlers : Handler(h, RaceRuns)

SpecEvents == Init /\ [][NextEvents]_vars

\* one invocation with its whole attempt budget and every list-runs response
NextMonitor ==
  \/ InitializeDatabase
  \/ Invocation(1, ApiRuns)

SpecMonitor == Init /\ [][NextMonitor]_vars

\* a dispatch (invocation 1, followed to the end of dispatchWorkflow) next to
\* another invocation with its monitor and the workflow-run event handler
NextFrame ==
  \/ InitializeDatabase
  \/ Dispatching(1)
  \/ BoundedInvocation(2, OneRun)
  \/ \E h \in Handlers : Handler(h, OneRun)

SpecFrame == Init /\ [][NextFrame]_vars

\* the local clock advances
Tick ==
  /\ now < MaxClock
  /\ now' = now + 1
  /\ UNCHANGED <<dbAvailable, records, nextId, pc, dbRecordId, attempt, latest,
                 ins, endpoint, requests, sawCompleted, lastError, hvars, initRet, script,
                 caller, waited, pushvars, libvars>>

\* one invocation while the local clock advances; the platform stamps the runs
\* with its own clock
NextClock ==
  \/ Tick
  \/ InitializeDatabase
  \/ BoundedInvocation(1, RaceRuns)

SpecClock == Init /\ [][NextClock]_vars

\* the runs a poll can report while the run has not finished
NonTerminalRuns == { r \in ApiRuns : r.status # "completed" }

\* one invocation whose every poll reports a run that has not finished
NextTimeout ==
  \/ InitializeDatabase
  \/ Dispatching(1)
  \/ MonitorWarmUp(1)
  \/ \E run \in NonTerminalRuns : MonitorPollRun(1, run)
  \/ MonitorLookupReturns(1)
  \/ MonitorCorrelateReturns(1)
  \/ MonitorWait(1)

SpecTimeout == Init /\ [][NextTimeout]_vars

\* every awaited call and timer of the invocation eventually completes
SpecMonitorFair == SpecMonitor /\ WF_vars(Invocation(1, ApiRuns))

\* one invocation of the dispatchAndMonitorWorkflow of src/actions, its monitor
\* observed for its first MaxPolls polls
ActionsInvocation(p, Runs) ==
  \/ Dispatching(p)
  \/ MonitorWorkflow(p, Runs)
  \/ requests[p] < MaxPolls /\ MonitorWait(p)

\* the two dispatchAndMonitorWorkflow functions side by side: invocation 1 is
\* the one of workflow-runner.ts, invocation 2 the one of src/actions
NextVariants ==
  \/ InitializeDatabase
  \/ BoundedInvocation(1, RaceRuns)
  \/ ActionsInvocation(2, RaceRuns)

SpecVariants == Init /\ [][NextVariants]_vars

\* the two functions when an error can escape their monitors
NextBackground ==
  \/ InitializeDatabase
  \/ BoundedInvocation(1, OneRun)
  \/ ActionsInvocation(2, OneRun)
  \/ \E p \in Procs : MonitorRejects(p)

SpecBackground == Init /\ [][NextBackground]_vars

\* the reports about one run that is queued, then in progress, then completed
\* with conclusion failure
TraceRuns ==
  { r \in ApiRuns : /\ r.id = 1
                    /\ r.status \in ValidStatuses
                    /\ r.conclusion \in {NULLS, "failure"}
                    /\ r.run_started_at # NULL }

\* one invocation with its whole attempt budget, the polls reporting no run, an
\* error or that run
NextTrace ==
  \/ InitializeDatabase
  \/ Invocation(1, TraceRuns)

SpecTrace == Init /\ [][NextTrace]_vars

\* every status string the platform uses for a run, in list-runs responses and
\* in workflow_run events
ReportedStatuses == ApiStatuses \cup {"requested", "pending"}

\* the reports about one run of the workflow, with any of these statuses
StatusRuns ==
  { r \in [id : {1}, status : ReportedStatuses, conclusion : {NULLS, "success"},
           run_started_at : ApiTimes] :
      (r.status = "completed") <=> (r.conclusion # NULLS) }

\* one invocation next to the workflow-run event handler, the platform reporting
\* any status
NextStatuses ==
  \/ InitializeDatabase
  \/ BoundedInvocation(1, StatusRuns)
  \/ \E h \in Handlers : Handler(h, StatusRuns)

SpecStatuses == Init /\ [][NextStatuses]_vars

\* the invocations started by the push handler: dispatchWorkflow is entered by
\* PushListReturns, the rest of the dispatch and the monitor follow
PushInvocation(p, Runs) ==
  \/ DispatchInsertReturns(p)
  \/ DispatchAccepted(p)
  \/ DispatchRejected(p)
  \/ MonitorWorkflow(p, Runs)
  \/ requests[p] < MaxPolls /\ MonitorWait(p)

\* the server from start-up on: one push event, each selected workflow one invocation
NextServer ==
  \/ ServerStart
  \/ ServerTestReturns
  \/ InitializeDatabase
  \/ PushReceived
  \/ PushListFails
  \/ PushListReturns
  \/ PushSettled
  \/ \E p \in Procs : PushInvocation(p, RaceRuns)

SpecServer == Init /\ [][NextServer]_vars

\* a caller of the Gateway alone with the table while the clock advances: one
\* operation at a time, any arguments
NextGateway ==
  \/ Tick
  \/ \E run \in GatewayRuns : CallInsertWorkflowRun(run)
  \/ \E id \in 1..MaxRecords, u \in GatewayUpdates : CallUpdateWorkflowRunById(id, u)
  \/ \E runId \in RunIds, u \in GatewayUpdates : CallUpdateWorkflowRunByRunId(runId, u)
  \/ \E runId \in RunIds : CallGetWorkflowRunByRunId(runId)
  \/ CallGetWorkflowRunsByRepo
  \/ PoolQuerySucceeds
  \/ PoolQueryFails

SpecGateway == Init /\ [][NextGateway]_vars

\* the migration runner, run again and again while developers add files
NextMigrations ==
  \/ \E f \in MigrationFiles : AddMigrationFile(f)
  \/ RunMigrationsStart
  \/ RunMigrationsFilters
  \/ RunMigrationsReadFails
  \/ ApplyMigrationCommits
  \/ ApplyMigrationRollsBack

SpecMigrations == Init /\ [][NextMigrations]_vars

\* the runs whose events are delivered again and again: for every run id one
\* event, the first run in progress and not yet started, the others completed
RedeliveredRuns ==
  { r \in ApiRuns :
      /\ r.status = (IF r.id = 1 THEN "in_progress" ELSE "completed")
      /\ r.conclusion \in {NULLS, "success"}
      /\ (r.run_started_at = NULL) <=> (r.id = 1) }

\* the event handler alone with the table while the clock advances: every
\* delivery for a run id carries the same event
NextRedelivery ==
  \/ Tick
  \/ InitializeDatabase
  \/ \E h \in Handlers : Handler(h, RedeliveredRuns)

SpecRedelivery == Init /\ [][NextRedelivery]_vars

\* callers of getClient and closeClient sharing the module's client variable
NextClient ==
  \E c \in Callers :
    \/ GetClientCall(c)
    \/ ConnectResolves(c)
    \/ ConnectRejects(c)
    \/ CloseClientCall(c)
    \/ EndResolves(c)
    \/ EndRejects(c)

SpecClient == Init /\ [][NextClient]_vars

(* ------------------- replay of Workflow Control API responses --------- *)

\* one response of the Workflow Control API: to the dispatch call or to a list-runs request
Response(kind, run) == [kind |-> kind, run |-> run]

DispatchResponses == { Response(k, NoRun) : k \in {"accepted", "rejected"} }

PollResponses(Runs) ==
  { Response(k, NoRun) : k \in {"empty"} \cup FetchErrors } \cup { Response("run", r) : r \in Runs }

\* the response sequences replayed: to the dispatch call, then to each list-runs request
Scripts(Runs) ==
  { s \in [1..(MaxPolls + 1) -> DispatchResponses \cup PollResponses(Runs)] :
      /\ s[1] \in DispatchResponses
      /\ \A k \in 2..(MaxPolls + 1) : s[k] \in PollResponses(Runs) }

\* the dispatch endpoint answers as the script says
ReplayDispatch(p) ==
  \/ script[1].kind = "accepted" /\ DispatchAccepted(p)
  \/ script[1].kind = "rejected" /\ DispatchRejected(p)

\* the list-runs request number requests[p] is answered as the script says
ReplayPoll(p) ==
  \/ script[requests[p] + 1].kind = "empty" /\ MonitorPollEmpty(p)
  \/ /\ script[requests[p] + 1].kind \in FetchErrors
     /\ MonitorPollError(p)
     /\ lastError'[p] = script[requests[p] + 1].kind
  \/ script[requests[p] + 1].kind = "run" /\ MonitorPollRun(p, script[requests[p] + 1].run)

\* one invocation of dispatchAndMonitorWorkflow fed from the script, its monitor
\* observed for its first MaxPolls polls
ReplayInvocation(p) ==
  \/ DispatchStart(p)
  \/ DispatchInsertReturns(p)
  \/ ReplayDispatch(p)
  \/ MonitorWarmUp(p)
  \/ ReplayPoll(p)
  \/ MonitorLookupReturns(p)
  \/ MonitorCorrelateReturns(p)
  \/ MonitorFinalReturns(p)
  \/ requests[p] < MaxPolls /\ MonitorWait(p)

InitReplay ==
  /\ InitProgram
  /\ script \in Scripts(OneRun)

\* two invocations that receive the same Workflow Control API responses while the
\* flag changes at any time and every Gateway call may fail
NextReplay ==
  \/ InitializeDatabase
  \/ \E p \in Procs : ReplayInvocation(p)

SpecReplay == InitReplay /\ [][NextReplay]_vars

(* ----------------------------- properties ----------------------------- *)

\* the row is as the Dispatcher inserts it: queued, no run id, no conclusion
Pristine(id) ==
  /\ id \in DOMAIN records
  /\ records[id].status = "queued"
  /\ records[id].run_id = NULL
  /\ records[id].conclusion = NULLS

\* the rows inserted by the dispatchWorkflow call of invocation p
CreatedBy(p) == { id \in DOMAIN records : records[id].by = p }

\* the order queued < in_progress < completed
Rank(status) == CASE status = "queued" -> 0 [] status = "in_progress" -> 1 [] OTHER -> 2

\* invocation p takes a step that completes a record write of its monitor
MonitorWrites(p) == pc[p] \in {"correlate", "final"} /\ pc'[p] # pc[p]

\* invocation p takes a step that issues a Gateway call
IssuesGatewayCall(p) == pc'[p] # pc[p] /\ pc'[p] \in {"insert", "lookup", "correlate", "final"}

\* C1 (as stated): every dispatchWorkflow call made while the flag is true has
\* created exactly one record by the time the dispatch endpoint is called.
C1_ExactlyOneRecord ==
  \A p \in Procs :
    (ins[p] # "none" /\ pc[p] \notin {"idle", "insert"}) => Cardinality(CreatedBy(p)) = 1

\* C1 (amended): a dispatchWorkflow call made while the flag is true attempts one
\* insert, which has completed (ok or failed) whenever the endpoint call is in
\* flight or over; a successful insert created exactly one record, queued and
\* without run id while the endpoint call is in flight; a failed one created none.
C1_InsertBeforeDispatch ==
  \A p \in Procs :
    /\ (ins[p] = "pending") <=> (pc[p] = "insert")
    /\ ins[p] \in {"none", "pending", "failed"} => (CreatedBy(p) = {} /\ dbRecordId[p] = NULL)
    /\ ins[p] = "ok" => CreatedBy(p) = {dbRecordId[p]}
    /\ (ins[p] = "ok" /\ pc[p] = "dispatch") => Pristine(dbRecordId[p])
    /\ endpoint[p] # "none" => ins[p] \in {"none", "ok", "failed"}

C1_Witness ==
  \E p, q \in Procs :
    /\ ins[p] = "ok" /\ pc[p] = "dispatch" /\ Pristine(dbRecordId[p])
    /\ ins[q] = "failed" /\ endpoint[q] = "accepted"

\* C2: once the dispatch endpoint call of an invocation has failed, the
\* invocation has raised and the record it inserted (if any) exists, queued,
\* without run id and without conclusion, in every later state.
C2_RejectedLeavesQueued ==
  \A p \in Procs :
    endpoint[p] = "rejected" =>
      /\ pc[p] = "raised"
      /\ ins[p] = "ok" => Pristine(dbRecordId[p])
      /\ ins[p] # "ok" => dbRecordId[p] = NULL

C2_Witness ==
  \E p, q \in Procs :
    /\ endpoint[p] = "rejected" /\ ins[p] = "ok"
    /\ pc[q] = "returned" /\ dbRecordId[q] # NULL /\ records[dbRecordId[q]].status = "completed"

\* C3 (as stated): after every record write of monitorWorkflowRun the written
\* record has a conclusion if and only if its status is completed.
C3_ConclusionIffCompleted ==
  [][ \A p \in Procs :
        (MonitorWrites(p) /\ records' # records) =>
          LET r == records'[dbRecordId[p]] IN (r.conclusion # NULLS) <=> (r.status = "completed")
    ]_vars

\* C4 (as stated): no record write of monitorWorkflowRun moves a status backward
\* in the order queued < in_progress < completed.
C4_StatusNeverBackward ==
  [][ \A p \in Procs :
        MonitorWrites(p) =>
          \A id \in DOMAIN records : Rank(records'[id].status) >= Rank(records[id].status)
    ]_vars

\* C5 (as stated): a run id, once set on a record, is never replaced by another value.
C5_RunIdNeverOverwritten ==
  [][ \A id \in DOMAIN records :
        records[id].run_id # NULL => records'[id].run_id = records[id].run_id
    ]_vars

\* C6 (as stated): in every reachable state each external run id is carried by
\* at most one record.
C6_RunIdUnique ==
  \A a, b \in DOMAIN records :
    (records[a].run_id # NULL /\ records[a].run_id = records[b].run_id) => a = b

C10_CallsOnlyWhileAvailable ==
  [][ \A p \in Procs :
        IssuesGatewayCall(p) => (dbAvailable /\ (pc'[p] # "insert" => dbRecordId[p] # NULL))
    ]_vars

\* C10 (amended): the insert, the correlation lookup and the final-status write
\* are issued only while the flag is true (the monitor's with a non-null
\* dbRecordId); the correlation write is issued only when such a lookup of the
\* same poll has returned, without reading the flag again; no invocation raises
\* unless its dispatch endpoint call was rejected.
C10_CallsGuarded ==
  [][ \A p \in Procs :
        /\ (IssuesGatewayCall(p) /\ pc'[p] # "correlate") =>
             (dbAvailable /\ (pc'[p] # "insert" => dbRecordId[p] # NULL))
        /\ (IssuesGatewayCall(p) /\ pc'[p] = "correlate") =>
             (pc[p] = "lookup" /\ dbRecordId[p] # NULL)
        /\ pc'[p] = "raised" => endpoint'[p] = "rejected"
    ]_vars

C10_Witness ==
  \E p \in Procs : pc[p] = "correlate" /\ ~dbAvailable

\* the invocation is over: its monitor returned or its dispatch raised
Done(p) == pc[p] \in {"returned", "raised"}

\* C11: two invocations that receive the same Workflow Control API responses
\* issue the same Control API calls (the dispatch call, then the same number of
\* list-runs requests) and end the same way (returned or raised), whatever the
\* flag was at each check and whichever of their Gateway calls failed.
C11_SameControlCalls ==
  \A p, q \in Procs :
    /\ Done(p) => requests[q] <= requests[p]
    /\ (Done(p) /\ Done(q)) =>
         (pc[p] = pc[q] /\ endpoint[p] = endpoint[q] /\ requests[p] = requests[q])
    /\ (endpoint[p] # "none" /\ endpoint[q] # "none") => endpoint[p] = endpoint[q]

C11_Witness ==
  \E p, q \in Procs :
    /\ pc[p] = "returned" /\ pc[q] = "returned"
    /\ requests[p] = MaxPolls /\ requests[q] = MaxPolls
    /\ ins[p] = "none"
    /\ ins[q] = "ok"
    /\ records[dbRecordId[q]].status = "completed"
    /\ records[dbRecordId[q]].conclusion = "success"

\* invocation p completes the awaited call `at`
Leaves(p, at) == pc[p] = at /\ pc'[p] # at

\* C12 (as stated): with the flag true and the dispatch accepted, when the
\* correlation block of the first poll that reports run r is over the tracked
\* record has run_id r and the reported status, and when the monitor returns
\* after a poll that reported r completed with conclusion c the record is
\* completed with conclusion c and completed_at set.
C12_RecordFollowsRun ==
  [][ \A p \in Procs :
        (dbAvailable /\ ins[p] = "ok" /\ endpoint[p] = "accepted") =>
          /\ Leaves(p, "correlate") =>
                /\ records'[dbRecordId[p]].run_id = latest[p].id
                /\ records'[dbRecordId[p]].status = latest[p].status
          /\ Leaves(p, "final") =>
                /\ pc'[p] = "returned"
                /\ records'[dbRecordId[p]].status = "completed"
                /\ records'[dbRecordId[p]].conclusion = latest[p].conclusion
                /\ records'[dbRecordId[p]].completed_at # NULL
    ]_vars

\* C12 (amended): with a tracked record, every poll that reports a run while the
\* flag is true is followed by the lookup, which writes nothing; the correlation
\* write is issued only when no record carries the reported run id r, and it
\* either fails (logged, the record unchanged) or sets run_id r, the reported
\* status and the reported start time and nothing else; the final write for a
\* poll that reported r completed with conclusion c either fails or sets status
\* completed, conclusion c and completed_at to the local time and nothing else;
\* in both cases the monitor then returns.
C12_WritesFollowRun ==
  [][ \A p \in Procs :
        ins[p] = "ok" =>
          /\ (Leaves(p, "poll") /\ pc'[p] \notin {"waitEmpty", "waitErr"} /\ dbAvailable) =>
                (pc'[p] = "lookup" /\ records' = records)
          /\ Leaves(p, "lookup") =>
                /\ records' = records
                /\ pc'[p] = "correlate" => RowsWithRunId(records, latest[p].id) = {}
                /\ pc'[p] # "correlate" => pc'[p] \in {"final", "waitRun", "returned"}
          /\ Leaves(p, "correlate") =>
                /\ \/ records' = records
                   \/ records' = [records EXCEPT ![dbRecordId[p]] =
                        [@ EXCEPT
                           !.run_id = latest[p].id,
                           !.status = latest[p].status,
                           !.started_at = IF latest[p].run_started_at # NULL
                                            THEN latest[p].run_started_at ELSE @,
                           !.updated_at = now]]
                /\ pc'[p] = IF latest[p].status = "completed"
                              THEN (IF dbAvailable THEN "final" ELSE "returned")
                              ELSE "waitRun"
          /\ Leaves(p, "final") =>
                /\ latest[p].status = "completed"
                /\ \/ records' = records
                   \/ records' = [records EXCEPT ![dbRecordId[p]] =
                        [@ EXCEPT
                           !.status = "completed",
                           !.conclusion = latest[p].conclusion,
                           !.completed_at = now,
                           !.updated_at = now]]
                /\ pc'[p] = "returned"
    ]_vars

C12_Witness ==
  /\ pc[1] = "final"
  /\ ins[1] = "ok"
  /\ attempt[1] = 1
  /\ records[dbRecordId[1]].status = "in_progress"
  /\ records[dbRecordId[1]].run_id = latest[1].id
  /\ latest[1].conclusion = "failure"

\* C13: when every poll reports a run that has not finished, the monitor
\* returns (never raises) exactly when the 60th attempt is over, having issued
\* 60 requests; the step that falls out of the loop writes no record; the only
\* record writes are correlation writes, which store the reported status, so
\* the tracked record keeps the status written at correlation (in_progress
\* when the polls report in_progress) and is never marked completed.
C13_TimeoutKeepsRecord ==
  /\ [](pc[1] = "raised" => endpoint[1] = "rejected")
  /\ [](pc[1] = "returned" => (attempt[1] = maxAttempts /\ requests[1] = maxAttempts))
  /\ [](\A id \in DOMAIN records :
          /\ records[id].status \in {"queued", "in_progress"}
          /\ records[id].conclusion = NULLS /\ records[id].completed_at = NULL
          /\ records[id].run_id # NULL => records[id].by = 1)
  /\ [][ /\ (pc'[1] = "returned" /\ pc[1] # "returned") =>
               (pc[1] = "waitRun" /\ attempt'[1] = maxAttempts /\ records' = records)
         /\ (records' # records /\ DOMAIN records' = DOMAIN records) =>
               (Leaves(1, "correlate") /\ records'[dbRecordId[1]].status = latest[1].status)
     ]_vars

C13_Witness ==
  /\ pc[1] = "returned"
  /\ attempt[1] = maxAttempts
  /\ ins[1] = "ok"
  /\ records[dbRecordId[1]].status = "in_progress"
  /\ records[dbRecordId[1]].run_id = MaxRunId

\* C14: once the dispatch of invocation 1 has failed, the record it inserted
\* never changes again, whatever another invocation (dispatch and monitor) and
\* the workflow-run event handler do: it stays queued, without run id, without
\* conclusion, start or completion time.
C14_FailedDispatchRecordFrozen ==
  /\ [](( endpoint[1] = "rejected" /\ ins[1] = "ok") =>
          /\ Pristine(dbRecordId[1])
          /\ records[dbRecordId[1]].started_at = NULL
          /\ records[dbRecordId[1]].completed_at = NULL)
  /\ [][ (endpoint[1] = "rejected" /\ ins[1] = "ok") =>
            records'[dbRecordId[1]] = records[dbRecordId[1]] ]_vars

C14_Witness ==
  /\ endpoint[1] = "rejected" /\ ins[1] = "ok"
  /\ pc[2] = "returned" /\ sawCompleted[2] /\ ins[2] = "ok"
  /\ records[dbRecordId[2]].status = "completed"
  /\ hret[1] = dbRecordId[2]

\* C15 (as stated): every record whose three timestamps are present has
\* triggered_at <= started_at <= completed_at.
C15_TimestampsMonotonic ==
  \A id \in DOMAIN records :
    (records[id].started_at # NULL /\ records[id].completed_at # NULL) =>
      /\ records[id].triggered_at <= records[id].started_at
      /\ records[id].started_at <= records[id].completed_at

\* C16 (as stated): a conclusion, once non-null on a record, never changes
\* (neither to another value nor back to null).
C16_ConclusionImmutable ==
  [][ \A id \in DOMAIN records :
        records[id].conclusion # NULLS => records'[id].conclusion = records[id].conclusion
    ]_vars

\* C17 (as stated): when recordWorkflowRun handles an event for a run id no
\* record carries while a queued record without run id exists, the handler
\* attaches the run id to an existing record and the table does not grow.
C17_HandlerReusesQueuedRecord ==
  [][ \A h \in Handlers :
        ( /\ hpc[h] # "idle" /\ hpc'[h] = "idle"
          /\ RowsWithRunId(records, hevent[h].id) = {}
          /\ \E id \in DOMAIN records :
                Pristine(id) /\ records[id].by # NULL /\ endpoint[records[id].by] = "accepted"
          /\ hret'[h] # NULL ) =>
            /\ DOMAIN records' = DOMAIN records
            /\ RowsWithRunId(records', hevent[h].id) # {}
    ]_vars

\* C18: the flag is false until an initializeDatabase call completes; afterwards
\* it is what the most recently completed call returned, which is true exactly
\* when that call's connection attempt succeeded; a call always returns a
\* value (it never raises) and nothing else writes the flag.
C18_FlagIsLastResult ==
  /\ [](initRet.ret = "none" => (~dbAvailable /\ initRet.test = "none"))
  /\ [](initRet.ret # "none" =>
          /\ initRet.ret \in {"true", "false"}
          /\ dbAvailable <=> (initRet.ret = "true")
          /\ (initRet.ret = "true") <=> (initRet.test = "ok"))
  /\ [][ dbAvailable' # dbAvailable => initRet'.ret = (IF dbAvailable' THEN "true" ELSE "false")
     ]_vars

C18_Witness ==
  /\ initRet.ret = "false"
  /\ ~dbAvailable
  /\ ins[1] = "ok"
  /\ pc[1] = "lookup"

\* C19: when the flag is true but the insert fails, dispatchWorkflow goes on to
\* the dispatch endpoint call, issued once and right after the failure; the
\* call created no record and holds a null record id from then on, also after
\* the endpoint accepted and the monitor runs.
C19_InsertFailureStillDispatches ==
  /\ [](\A p \in Procs :
          ins[p] = "failed" =>
            /\ CreatedBy(p) = {}
            /\ dbRecordId[p] = NULL
            /\ pc[p] \notin {"idle", "insert"}
            /\ pc[p] = "dispatch" <=> endpoint[p] = "none"
            /\ pc[p] = "raised" <=> endpoint[p] = "rejected")
  /\ [][ \A p \in Procs :
            /\ (ins[p] = "pending" /\ ins'[p] = "failed") =>
                 (pc'[p] = "dispatch" /\ records' = records)
            /\ (pc[p] # "dispatch" /\ pc'[p] = "dispatch") => pc[p] \in {"idle", "insert"}
     ]_vars

C19_Witness ==
  \E p \in Procs :
    /\ ins[p] = "failed"
    /\ endpoint[p] = "accepted"
    /\ pc[p] = "returned"
    /\ dbAvailable
    /\ records = <<>>

\* C20: an invocation has raised exactly when its dispatch endpoint call
\* failed; it raises from the endpoint call only, never from the flag check or
\* the insert, whatever the Gateway did.
C20_RaisesIffEndpointFails ==
  /\ [](\A p \in Procs : (pc[p] = "raised") <=> (endpoint[p] = "rejected"))
  /\ [][ \A p \in Procs :
            (pc[p] # "raised" /\ pc'[p] = "raised") =>
              (pc[p] = "dispatch" /\ ins[p] \in {"none", "ok", "failed"})
     ]_vars

C20_Witness ==
  \E p, q \in Procs :
    /\ ins[p] = "failed" /\ endpoint[p] = "accepted" /\ pc[p] = "poll"
    /\ ins[q] = "none" /\ endpoint[q] = "rejected" /\ pc[q] = "raised"

\* the awaited calls and timers of a started monitor, and its return
MonitorStates ==
  {"warmup", "poll", "lookup", "correlate", "final", "waitEmpty", "waitRun", "waitErr",
   "returned", "logged"}

\* C21: with either dispatchAndMonitorWorkflow, a monitor is running, has waited
\* or has issued a list-runs request only if the dispatch endpoint call of the
\* same invocation was accepted; an invocation whose endpoint call failed has
\* raised to its caller, started no monitor and issued no list-runs request.
C21_MonitorOnlyAfterDispatch ==
  \A p \in Procs :
    /\ (pc[p] \in MonitorStates \/ requests[p] > 0 \/ waited[p] > 0) =>
         endpoint[p] = "accepted"
    /\ endpoint[p] = "rejected" =>
         /\ pc[p] = "raised" /\ caller[p] = "rejected"
         /\ requests[p] = 0 /\ waited[p] = 0
    /\ endpoint[p] = "none" => pc[p] \in {"idle", "insert", "dispatch"}

C21_Witness ==
  \E p, q \in Procs :
    /\ endpoint[p] = "rejected" /\ caller[p] = "rejected"
    /\ endpoint[q] = "accepted" /\ pc[q] = "returned" /\ requests[q] = MaxPolls

\* C22: with either dispatchAndMonitorWorkflow, the caller's promise is resolved
\* in every state in which the monitor exists (from its warm-up timer on, so
\* before the first poll and while it polls), and it is rejected only by a
\* failed dispatch endpoint call: when an error escapes the monitor the .catch
\* handler logs it and the caller's promise stays resolved.
C22_CallerNotBlocked ==
  \A p \in Procs :
    /\ pc[p] \in MonitorStates => caller[p] = "resolved"
    /\ caller[p] = "rejected" => (endpoint[p] = "rejected" /\ pc[p] = "raised" /\ requests[p] = 0)
    /\ caller[p] = "pending" <=> pc[p] \in {"insert", "dispatch"}
    /\ lastError[p] = "escaped" => (pc[p] = "logged" /\ caller[p] = "resolved")

C22_Witness ==
  \E p, q \in Procs :
    /\ pc[p] = "warmup" /\ requests[p] = 0 /\ caller[p] = "resolved"
    /\ pc[q] = "logged" /\ requests[q] = MaxPolls /\ caller[q] = "resolved"

\* C23: in the push handler every selected workflow has its own invocation,
\* started when the list is filtered; when the handler has returned, the
\* dispatch endpoint call of every selected workflow has been made and has
\* settled, whatever the others did; a monitor exists for exactly the selected
\* workflows whose endpoint call was accepted; the handler ends by returning
\* (it has no raising exit) and workflows that were not selected are untouched.
C23_PushDispatchesEach ==
  /\ push \in {"idle", "list", "waiting", "done"}
  /\ push = "waiting" => selected # {}
  /\ \A p \in selected :
       /\ pc[p] # "idle"
       /\ push = "done" => (endpoint[p] \in {"accepted", "rejected"}
                             /\ caller[p] \in {"resolved", "rejected"})
       /\ pc[p] \in MonitorStates <=> endpoint[p] = "accepted"
       /\ pc[p] = "raised" <=> endpoint[p] = "rejected"
  /\ \A p \in Procs \ selected : pc[p] = "idle" /\ endpoint[p] = "none" /\ requests[p] = 0

C23_Witness ==
  \E p, q \in selected :
    /\ push = "done"
    /\ endpoint[p] = "rejected" /\ caller[p] = "rejected" /\ requests[p] = 0
    /\ endpoint[q] = "accepted" /\ requests[q] = MaxPolls /\ pc[q] = "returned"

\* C24: a failed correlation lookup or a failed correlation write changes no
\* record and is followed by what follows a successful one: the final-status
\* write when the run is completed and the flag is true, the return when it is
\* completed and the flag is false, the interval timer otherwise, with the
\* attempt counter unchanged; a failed final-status write is followed by the
\* return; the invocation raises from the dispatch endpoint call only, and the
\* monitor returns only after a poll that reported a completed run or after
\* its 60th attempt.
C24_GatewayFailureSwallowed ==
  [][ \A p \in Procs :
        /\ ( \/ /\ Leaves(p, "lookup")
                /\ RowsWithRunId(records, latest[p].id) = {}
                /\ pc'[p] # "correlate"
             \/ /\ Leaves(p, "correlate")
                /\ records' = records ) =>
             /\ records' = records
             /\ attempt'[p] = attempt[p]
             /\ pc'[p] = IF latest[p].status = "completed"
                           THEN (IF dbAvailable THEN "final" ELSE "returned")
                           ELSE "waitRun"
        /\ (Leaves(p, "final") /\ records' = records) => pc'[p] = "returned"
        /\ (pc[p] # "raised" /\ pc'[p] = "raised") => pc[p] = "dispatch"
        /\ (pc[p] # "returned" /\ pc'[p] = "returned") =>
             (sawCompleted'[p] \/ attempt'[p] = maxAttempts)
    ]_vars

C24_Witness ==
  /\ pc[1] = "final"
  /\ ins[1] = "ok"
  /\ Pristine(dbRecordId[1])
  /\ latest[1].id = MaxRunId

\* C25 (as stated): whatever the start-up connection test finds, initializeServer
\* goes on to create the app and to serve webhooks.
C25_StartupSurvivesFailedTest ==
  [][ (server = "testing" /\ server' # "testing") => server' = "serving" ]_vars

\* C26 (as stated): with the dispatchAndMonitorWorkflow the push handler calls,
\* when the flag is true and the invocation has a tracked record, the record
\* carries a run id once the processing of a poll that reported a run is over
\* (the monitor waits for its next poll or returns), and it is completed with
\* a conclusion once the monitor returns after a poll that reported the run
\* completed.
C26_ActionsMonitorUpdatesRecord ==
  [][ \A p \in Procs :
        ( /\ Leaves(p, "poll")
          /\ pc'[p] \in {"waitRun", "returned"}
          /\ dbAvailable
          /\ ins[p] = "ok" ) =>
            /\ records'[dbRecordId[p]].run_id # NULL
            /\ pc'[p] = "returned" =>
                 /\ records'[dbRecordId[p]].status = "completed"
                 /\ records'[dbRecordId[p]].conclusion # NULLS
    ]_vars

\* C27: whatever status string (queued, in_progress, completed, waiting,
\* requested, pending) a list-runs response or a workflow-run event reports,
\* every record's status is one of queued, in_progress, completed in every
\* reachable state: a write of any other status is rejected by the table.
C27_StatusAlwaysValid ==
  \A id \in DOMAIN records : records[id].status \in ValidStatuses

C27_Witness ==
  /\ pc[1] = "correlate"
  /\ latest[1].status = "waiting"
  /\ Pristine(dbRecordId[1])
  /\ hpc[1] = "insert"
  /\ hevent[1].status = "pending"

\* the tracked record of invocation p: queued, carrying run id r, no conclusion
QueuedWithRunId(p, r) ==
  /\ records[dbRecordId[p]].status = "queued"
  /\ records[dbRecordId[p]].run_id = r
  /\ records[dbRecordId[p]].conclusion = NULLS

\* C28: once the tracked record carries the id of the reported run, the lookup
\* of a poll is never followed by the correlation write, and a poll that
\* reports the run with a non-terminal status changes no record and ends in
\* the interval timer; so a record that is queued with the run id stays so
\* through every later queued or in_progress poll, its only change is to
\* completed with the reported conclusion (failure) and the same run id, and a
\* record that is still as inserted changes only by receiving the run id with
\* the reported status or by the final write.
C28_NoWriteOnceCorrelated ==
  [][ \A p \in Procs :
        ins[p] = "ok" =>
          LET rec == records[dbRecordId[p]]
              new == records'[dbRecordId[p]] IN
          /\ (Leaves(p, "lookup") /\ rec.run_id = latest[p].id) =>
               /\ pc'[p] # "correlate"
               /\ records' = records
               /\ latest[p].status # "completed" => pc'[p] = "waitRun"
          /\ (QueuedWithRunId(p, 1) /\ new # rec) =>
               /\ Leaves(p, "final")
               /\ new.status = "completed" /\ new.conclusion = "failure" /\ new.run_id = 1
          /\ (Pristine(dbRecordId[p]) /\ new # rec) =>
               \/ Leaves(p, "correlate") /\ new.run_id = latest[p].id
                    /\ new.status = latest[p].status /\ new.conclusion = NULLS
               \/ Leaves(p, "final") /\ new.run_id = NULL
                    /\ new.status = "completed" /\ new.conclusion = "failure"
          /\ (rec.status = "completed" /\ rec.conclusion # NULLS) => new = rec
    ]_vars

C28_Witness ==
  /\ pc[1] = "final"
  /\ ins[1] = "ok"
  /\ attempt[1] = 4
  /\ QueuedWithRunId(1, 1)
  /\ latest[1].conclusion = "failure"

\* C29: with either monitor, from a poll that reported a completed run on, the
\* invocation issues no list-runs request, sets no timer and moves only
\* through the Gateway calls of that poll (lookup, correlation write, final
\* write) to its return; once it has returned it takes no step, so no record
\* changes unless another invocation acts.
C29_CompletedEndsMonitoring ==
  [][ \A p \in Procs :
        sawCompleted[p] =>
          /\ sawCompleted'[p]
          /\ requests'[p] = requests[p]
          /\ attempt'[p] = attempt[p]
          /\ waited'[p] = waited[p]
          /\ pc[p] \in {"lookup", "correlate", "final", "returned"}
          /\ pc'[p] \in {"lookup", "correlate", "final", "returned"}
          /\ pc[p] = "returned" =>
               /\ pc'[p] = "returned"
               /\ records' # records => \E q \in Procs \ {p} : pc'[q] # pc[q]
    ]_vars

C29_Witness ==
  /\ pc[1] = "returned" /\ sawCompleted[1] /\ requests[1] = 1
  /\ ins[1] = "ok" /\ records[dbRecordId[1]].conclusion = "success"
  /\ pc[2] = "returned" /\ sawCompleted[2] /\ requests[2] = 1

\* C30 (as stated): the timers one monitor has waited out (the warm-up and the
\* interval timers) add up to at most 10 minutes, 600000 ms.
C30_WaitsAtMostTenMinutes ==
  \A p \in Procs : waited[p] <= 600000

\* the Gateway call in flight is an update
UpdateInFlight == gwCall.pc = "query" /\ gwCall.op \in {"updateById", "updateByRunId"}

\* the rows the update in gwCall is keyed to
Matching(call) ==
  IF call.op = "updateById" THEN DOMAIN records \cap {call.key}
  ELSE { id \in DOMAIN records : records[id].run_id = call.key }

\* C31: when the query of updateWorkflowRunById or updateWorkflowRunByRunId
\* succeeds, every record matching the key has each supplied field set to the
\* supplied value, updated_at set to the database's time and every other field
\* as before; every other record is as before and no record appears or
\* disappears; the operation returns true exactly when a record matched.
C31_PartialUpdate ==
  [][ (UpdateInFlight /\ gwCall'.pc = "done" /\ gwRet'.kind # "raised") =>
        /\ DOMAIN records' = DOMAIN records
        /\ \A id \in DOMAIN records :
             IF id \in Matching(gwCall)
               THEN \A f \in DOMAIN records[id] :
                      records'[id][f] =
                        IF f \in Supplied(gwCall.u) THEN gwCall.u[f]
                        ELSE IF f = "updated_at" THEN now
                        ELSE records[id][f]
               ELSE records'[id] = records[id]
        /\ gwRet'.kind = IF Matching(gwCall) # {} THEN "true" ELSE "false"
    ]_vars

C31_Witness ==
  /\ gwRet.kind = "true"
  /\ \E a, b \in DOMAIN records :
       /\ records[a].status = "completed" /\ records[a].updated_at > records[a].created_at
       /\ records[a].started_at = 1 /\ records[a].run_id = 1
       /\ records[b].status = "queued" /\ records[b].updated_at = records[b].created_at
       /\ records[b].run_id = NULL

\* C32: an update called with no field supplied is over at once: it has issued
\* no query, it has returned false, and the step changes no record, so also no
\* updated_at, whether or not a record matches the key.
C32_NoFieldsNoQuery ==
  /\ [](( gwCall.op \in {"updateById", "updateByRunId"} /\ Supplied(gwCall.u) = {} ) =>
          (gwCall.pc = "done" /\ gwQueries = 0 /\ gwRet.kind = "false"))
  /\ [][ ( /\ gwCall' # gwCall
           /\ gwCall'.op \in {"updateById", "updateByRunId"}
           /\ Supplied(gwCall'.u) = {} ) => (records' = records /\ nextId' = nextId) ]_vars

C32_Witness ==
  /\ gwCall.op = "updateByRunId"
  /\ Supplied(gwCall.u) = {}
  /\ gwRet.kind = "false"
  /\ \E id \in DOMAIN records :
       /\ records[id].run_id = gwCall.key
       /\ records[id].updated_at < now

\* C33 (as stated): every Gateway operation that has been called has issued
\* exactly one query.
C33_ExactlyOneQuery ==
  gwCall.op # "none" => gwQueries = 1

\* C33 (amended): insert, get by run id, list by repo and every update with a field
\* supplied issue their query when called, and no second one: while the query
\* is in flight and when the operation is over it has issued exactly one; a
\* failed query ends the operation, which raises and leaves every record and
\* the id sequence as they were.
C33_OneQueryNoRetry ==
  /\ [](gwCall.pc = "query" => gwQueries = 1)
  /\ [][ /\ (gwCall' # gwCall /\ gwCall'.op # "none") =>
              /\ gwCall.pc = "done"
              /\ (gwCall'.op \in {"insert", "getByRunId", "listByRepo"}
                    \/ Supplied(gwCall'.u) # {}) => (gwCall'.pc = "query" /\ gwQueries' = 1)
         /\ (gwCall.pc = "query" /\ gwCall' # gwCall) =>
              /\ gwCall' = NoCall
              /\ gwQueries' = 1
              /\ gwRet'.kind # "pending"
              /\ gwRet'.kind = "raised" => (records' = records /\ nextId' = nextId)
         /\ (gwCall.pc = "query" /\ gwCall' = gwCall) => gwQueries' = gwQueries
     ]_vars

C33_Witness ==
  /\ gwRet.kind = "raised"
  /\ gwQueries = 1
  /\ gwCall = NoCall
  /\ Cardinality(DOMAIN records) = MaxRecords
  /\ \E id \in DOMAIN records : records[id].status = "completed"

\* C34: no step of the Dispatcher, the Monitor or the event handler removes a
\* record: the ids present stay present; an insert adds one id, the next value
\* of the sequence, larger than every id handed out before, so no id is given
\* twice; the record an invocation tracks and the records it created keep
\* their ids.
C34_IdsStableAndDistinct ==
  /\ [](\A id \in DOMAIN records : 1 <= id /\ id < nextId)
  /\ [][ /\ DOMAIN records \subseteq DOMAIN records'
         /\ nextId' >= nextId
         /\ \A id \in DOMAIN records' \ DOMAIN records : id = nextId /\ nextId' = nextId + 1
         /\ \A id \in DOMAIN records : records'[id].by = records[id].by
         /\ \A p \in Procs : dbRecordId[p] # NULL => dbRecordId'[p] = dbRecordId[p]
     ]_vars

C34_Witness ==
  /\ pc[1] = "returned"
  /\ dbRecordId[1] # NULL
  /\ records[dbRecordId[1]].status = "completed"
  /\ hret[1] # NULL /\ hret[1] # dbRecordId[1]
  /\ hpc[1] = "idle"
  /\ Cardinality(DOMAIN records) = MaxRecords

\* the number a version denotes
RECURSIVE VersionNumber(_)
VersionNumber(v) ==
  IF v = <<>> THEN 0 ELSE 10 * VersionNumber(SubSeq(v, 1, Len(v) - 1)) + v[Len(v)]

\* C35 (as stated): the migrations a run has applied are in increasing order of
\* their version numbers, and a run that completes has applied exactly the
\* migrations that were pending when it started.
C35_PendingInVersionOrder ==
  /\ \A i, j \in DOMAIN migApplied :
       i < j => VersionNumber(migApplied[i].version) < VersionNumber(migApplied[j].version)
  /\ migpc = "done" => { migApplied[i] : i \in DOMAIN migApplied } = migPending

\* invocation p takes a step of its monitor / of its dispatchWorkflow call
MonitorStep(p) == pc[p] \in MonitorStates /\ pc'[p] # pc[p]
DispatchStep(p) == pc[p] \in {"idle", "insert", "dispatch"} /\ pc'[p] # pc[p]

\* C36: a step of a monitor adds no record and leaves every record other than
\* the one its dbRecordId names as it was (all of them when dbRecordId is
\* null); a step of dispatchWorkflow leaves every existing record as it was;
\* this holds when both monitors are told about the same run.
C36_WritesOwnRecordOnly ==
  [][ \A p \in Procs :
        /\ MonitorStep(p) =>
             /\ DOMAIN records' = DOMAIN records
             /\ nextId' = nextId
             /\ \A id \in DOMAIN records \ {dbRecordId[p]} : records'[id] = records[id]
        /\ DispatchStep(p) =>
             /\ \A id \in DOMAIN records : records'[id] = records[id]
             /\ DOMAIN records' \ DOMAIN records \subseteq {dbRecordId'[p]}
    ]_vars

C36_Witness ==
  \E p, q \in Procs :
    /\ pc[p] = "returned" /\ sawCompleted[p] /\ ins[p] = "ok"
    /\ records[dbRecordId[p]].run_id = 1 /\ records[dbRecordId[p]].status = "completed"
    /\ pc[q] = "returned" /\ sawCompleted[q] /\ ins[q] = "ok"
    /\ records[dbRecordId[q]].run_id = NULL /\ records[dbRecordId[q]].status = "completed"

\* C37: a step of dispatchWorkflow, of monitorWorkflowRun or of
\* recordWorkflowRun, whether its Gateway call succeeded or failed, leaves the
\* flag as it was; the flag changes only in the step in which an
\* initializeDatabase call completes, which touches no record and no invocation.
C37_OnlyInitializeWritesFlag ==
  [][ /\ ( \/ pc' # pc \/ ins' # ins \/ endpoint' # endpoint \/ dbRecordId' # dbRecordId
           \/ hpc' # hpc \/ hret' # hret \/ hevent' # hevent
           \/ records' # records \/ nextId' # nextId ) => dbAvailable' = dbAvailable
      /\ dbAvailable' # dbAvailable =>
           /\ initRet'.ret = (IF dbAvailable' THEN "true" ELSE "false")
           /\ pc' = pc /\ hpc' = hpc /\ records' = records
    ]_vars

C37_Witness ==
  /\ dbAvailable /\ initRet.ret = "true"
  /\ ins[1] = "failed" /\ pc[1] = "poll"
  /\ hpc[1] = "insert" /\ hevent[1].status = "waiting"

\* the row recordWorkflowRun stores when it inserts the event of run r
FirstHandling(r) == InsertRow(HandlerRun(EventOf(r, 1, 1)), NULL)

\* C38: when every delivery for a run id carries the same event, at most one
\* record carries that run id, and its status, conclusion, triggered_at,
\* started_at and completed_at are what the first handling stored, however
\* often the event has been handled since; a handling that finds the record
\* returns its id and changes nothing of the table but that record's
\* updated_at.
C38_RedeliveryIdempotent ==
  /\ [](\A r \in RedeliveredRuns :
          /\ Cardinality(RowsWithRunId(records, r.id)) <= 1
          /\ \A id \in RowsWithRunId(records, r.id) :
               \A f \in {"status", "conclusion", "triggered_at", "started_at", "completed_at"} :
                 records[id][f] = FirstHandling(r)[f])
  /\ [][ \A h \in Handlers :
           (hpc[h] = "update" /\ hpc'[h] = "idle" /\ hret'[h] # NULL) =>
             /\ DOMAIN records' = DOMAIN records
             /\ RowsWithRunId(records', hevent[h].id) = {hret'[h]}
             /\ \A id \in DOMAIN records :
                  \A f \in DOMAIN records[id] \ {"updated_at"} : records'[id][f] = records[id][f]
     ]_vars

C38_Witness ==
  \E a, b \in DOMAIN records :
    /\ hpc[1] = "idle" /\ hret[1] = a
    /\ records[a].run_id = MaxRunId /\ records[a].status = "completed"
    /\ records[a].completed_at = 1
    /\ records[a].updated_at > records[a].created_at
    /\ records[b].run_id = 1 /\ records[b].started_at = NULL

\* recordWorkflowRun is called by handler h in this step
HandlerCalled(h) ==
  \E run \in StatusRuns, c \in ApiTimes, u \in ApiTimes : HandlerStart(h, EventOf(run, c, u))

\* C39: an invocation of recordWorkflowRun is never left by an exception: it is
\* idle or suspended on one of its three Gateway calls; a call made while the
\* flag is false returns {} at once, issues no Gateway call and changes no
\* record; a step in which a Gateway call fails ends the invocation with {} and
\* changes no record.
C39_NeverRaises ==
  /\ [](\A h \in Handlers : hpc[h] \in {"idle", "lookup", "update", "insert"})
  /\ [][ \A h \in Handlers :
           /\ (HandlerCalled(h) /\ ~dbAvailable) =>
                (hpc'[h] = "idle" /\ hret'[h] = NULL /\ ~hcaught'[h] /\ records' = records)
           /\ (hcaught'[h] /\ ~hcaught[h]) =>
                /\ hpc[h] \in {"lookup", "update", "insert"}
                /\ hpc'[h] = "idle" /\ hret'[h] = NULL /\ records' = records
     ]_vars

C39_Witness ==
  /\ hcaught[1] /\ hpc[1] = "idle" /\ hret[1] = NULL
  /\ dbAvailable
  /\ RowsWithRunId(records, 1) # {}

\* C40: whatever getClient has returned to a caller is a Client whose connect()
\* had completed successfully by then.
C40_ReturnsConnectedClient ==
  \A c \in Callers : got[c] \in {"none", "connected"}
====
